---------------------------- MODULE Spec2Model ----------------------------
(***************************************************************************)
(* A model of mcp-openapi-server: request-body reconstruction              *)
(* (src/src/request-handler.ts), specification loading with cache, ETag    *)
(* revalidation and retry, tool derivation (src/unnamed/part_000,          *)
(* src/src/openapi-parser.ts) and stream aggregation                       *)
(* (src/src/sse-response-handler.ts).                                      *)
(*                                                                         *)
(* Each component is a state machine of its own over its own variables;    *)
(* SpecBody, SpecLoad, SpecDerive, SpecSSE and SpecServer run one          *)
(* component and leave the variables of the others at their initial        *)
(* values.                                                                 *)
(***************************************************************************)
EXTENDS Integers, Sequences, FiniteSets, TLC

VARIABLES
  \* request-handler.ts: one tool call being turned into a request body
  bTool,        \* the tool's metadata.requestBodySchema (or none)
  bDefaults,    \* config.defaults, the environment defaults
  bArgs,        \* the call's arguments, in Object.entries order
  bRebuilt,     \* requestBody as the chosen strategy returned it, before the defaults
  bBody,        \* what buildRequestBody returned (or threw)
  bPc,          \* "idle" before buildRequestBody ran, "built" after
  \* part_000: loading the specification
  cacheFile,    \* .cache/<md5 of the url>.json: absent, corrupt or a CacheEntry
  now,          \* Date.now(), in milliseconds
  load,         \* per load: where loadOpenAPISpec stands and what it holds
  loads,        \* how many loads have been started, one after the other
  \* part_000 and openapi-parser.ts: parseOpenAPISpec
  dParser,      \* which of the two parsers runs
  dSpec,        \* the document handed to parseOpenAPISpec
  dPc,          \* "idle", "paths" (in the loop), "done" or "failed"
  dIndex,       \* the path item the loop is at
  dTools,       \* `tools`, the Map, as its entries in insertion order
  dNewTools,    \* the tools made from the path item handled last
  dLog,         \* every tool handed to tools.set, in the order of the calls
  dListed,      \* what the ListTools handler answered last
  \* sse-response-handler.ts: handleSSEResponse
  sStream,      \* response.data, the whole streamed body
  sPc,          \* "idle", "forEach" (in the loop) or "settled"
  sChunks,      \* `chunks`, the list the loop runs over
  sIndex,       \* the chunk the loop is at
  contentArray, \* the blocks pushed so far
  sResult,      \* what the promise settled with, and how many times
  sFaults,      \* the chunks whose processing threw
  \* server.ts: OpenAPIMCPServer
  srvParser,    \* which parser the server is built with
  srvEnv,       \* process.env when getConfig ran
  srvConfig,    \* config: openApiSpec, apiBaseUrl, headers, defaults
  srvPc,        \* where start() stands, or "failed", or "exited"
  srvTools,     \* this.tools, as its entries in insertion order
  srvHandlers,  \* whether initializeHandlers() has run
  srvTransport, \* this.transport: "none", "created" or "connected"
  srvCall,      \* the CallTool request handled last
  srvFailed     \* whether some CallTool request has ended in an error

bodyVars == <<bTool, bDefaults, bArgs, bRebuilt, bBody, bPc>>
loadVars == <<cacheFile, now, load, loads>>
deriveVars == <<dParser, dSpec, dPc, dIndex, dTools, dNewTools, dLog, dListed>>
sseVars == <<sStream, sPc, sChunks, sIndex, contentArray, sResult, sFaults>>
serverVars == <<srvParser, srvEnv, srvConfig, srvPc, srvTools, srvHandlers, srvTransport,
                srvCall, srvFailed>>

vars == <<bTool, bDefaults, bArgs, bRebuilt, bBody, bPc, cacheFile, now, load, loads,
          dParser, dSpec, dPc, dIndex, dTools, dNewTools, dLog, dListed,
          sStream, sPc, sChunks, sIndex, contentArray, sResult, sFaults,
          srvParser, srvEnv, srvConfig, srvPc, srvTools, srvHandlers, srvTransport,
          srvCall, srvFailed>>

\* what the actions of one component leave alone
notBody == <<loadVars, deriveVars, sseVars, serverVars>>
notLoad == <<bodyVars, deriveVars, sseVars, serverVars>>
notDerive == <<bodyVars, loadVars, sseVars, serverVars>>
notSSE == <<bodyVars, loadVars, deriveVars, serverVars>>
notServer == <<bodyVars, loadVars, deriveVars, sseVars>>

Min(a, b) == IF a < b THEN a ELSE b
Max(a, b) == IF a < b THEN b ELSE a

(***************************************************************************)
(* JSON values.  A property name is a sequence of characters, so that      *)
(* includes("_"), split("_", 2) and the `${parent}_${child}` template are  *)
(* computed and not assumed.  An object is a function from property names  *)
(* to values; a property the object lacks is JavaScript's undefined.       *)
(***************************************************************************)
Str(s) == [k |-> "str", s |-> s]
NULL == [k |-> "null"]
ARR == [k |-> "arr"]
Obj(f) == [k |-> "obj", f |-> f]
EmptyObj == [x \in {} |-> NULL]

IsObj(v) == v.k = "obj"
\* JavaScript truthiness: null and the empty string are falsy
Truthy(v) == ~(v.k = "null" \/ (v.k = "str" /\ v.s = ""))
\* typeof v === "object": objects, arrays and null
TypeofObject(v) == v.k \in {"obj", "arr", "null"}

Has(o, key) == key \in DOMAIN o
Put(o, key, v) == [x \in (DOMAIN o) \cup {key} |-> IF x = key THEN v ELSE o[x]]

\* the arguments are a list of <<name, value>> entries with distinct names
ArgNames(args) == {args[i][1] : i \in 1..Len(args)}
ArgHas(args, key) == key \in ArgNames(args)
ArgGet(args, key) == args[CHOOSE i \in 1..Len(args) : args[i][1] = key][2]

\* String.prototype.includes("_")
includesUnderscore(key) == \E i \in 1..Len(key) : key[i] = "_"

\* String.prototype.split("_"): every piece between underscores
RECURSIVE splitAll(_)
splitAll(key) ==
  IF ~includesUnderscore(key) THEN <<key>>
  ELSE LET i == CHOOSE j \in 1..Len(key) :
                  key[j] = "_" /\ \A h \in 1..(j - 1) : key[h] # "_"
       IN <<SubSeq(key, 1, i - 1)>> \o splitAll(SubSeq(key, i + 1, Len(key)))

\* String.prototype.split("_", limit): the first `limit` pieces, the rest dropped
splitLimit(key, limit) ==
  LET pieces == splitAll(key) IN SubSeq(pieces, 1, Min(limit, Len(pieces)))

\* a result of building a body: the body, or a TypeError thrown on the way
Ok(body) == [err |-> FALSE, body |-> body]
TypeError == [err |-> TRUE, body |-> EmptyObj]
NoBody == [err |-> FALSE, body |-> EmptyObj]

(***************************************************************************)
(* request-handler.ts: applyEnvironmentDefaults.  Each entry of the        *)
(* defaults writes its own property, so the loop is given per property.    *)
(*   - a default that is not an object (and not null) is assigned;         *)
(*   - a non-array object default replaces a value whose typeof is not     *)
(*     "object" by {} and recurses into it;                                *)
(*   - null and array defaults are ignored.                                *)
(* Recursing into null throws as soon as an entry reads or writes it; an   *)
(* array takes the extra properties without showing them when serialised.  *)
(***************************************************************************)
RECURSIVE applyEnvironmentDefaults(_, _)
applyEnvironmentDefaults(requestBody, envDefaults) ==
  LET acts(key) == envDefaults[key].k \in {"str", "obj"}
      inner(key) ==
        LET d == envDefaults[key]
            cur == IF Has(requestBody, key) /\ TypeofObject(requestBody[key])
                   THEN requestBody[key] ELSE Obj(EmptyObj)
        IN IF cur.k = "null"
           THEN IF \E c \in DOMAIN d.f : d.f[c].k \in {"str", "obj"}
                THEN TypeError ELSE Ok(cur)
           ELSE IF cur.k = "arr" THEN Ok(cur)
           ELSE LET r == applyEnvironmentDefaults(cur.f, d.f)
                IN IF r.err THEN TypeError ELSE Ok(Obj(r.body))
      slot(key) ==
        IF Has(envDefaults, key) /\ acts(key)
        THEN IF envDefaults[key].k = "str"
             THEN Ok(envDefaults[key])
             ELSE inner(key)
        ELSE Ok(requestBody[key])
      keys == (DOMAIN requestBody) \cup {key \in DOMAIN envDefaults : acts(key)}
  IN IF \E key \in keys : slot(key).err
     THEN TypeError
     ELSE Ok([key \in keys |-> slot(key).body])

(***************************************************************************)
(* A retained request-body schema: `properties` is the ordered list of     *)
(* <<name, property schema>>; a property schema has a type and, for an     *)
(* object, the ordered names of its nested properties.  hasProps is        *)
(* whether the `properties` key is there at all.                           *)
(***************************************************************************)
PropSchema(type, hasProps, names) ==
  [type |-> type, hasProps |-> hasProps, properties |-> names]
Schema(hasProps, props) == [none |-> FALSE, hasProps |-> hasProps, properties |-> props]
NoSchema == [none |-> TRUE, hasProps |-> FALSE, properties |-> <<>>]

\* a loop that looks under args[propName] first and at the flattened key second
RECURSIVE processNestedFromNestedFirst(_, _, _, _, _)
processNestedFromNestedFirst(propName, names, i, args, requestBody) ==
  IF i > Len(names) THEN requestBody
  ELSE
    LET nestedPropName == names[i]
        paramName == propName \o <<"_">> \o nestedPropName
        rb1 == IF Has(requestBody, propName) THEN requestBody
               ELSE Put(requestBody, propName, Obj(EmptyObj))
        nestedGiven == /\ ArgHas(args, propName)
                       /\ Truthy(ArgGet(args, propName))
                       /\ IsObj(ArgGet(args, propName))
                       /\ Has(ArgGet(args, propName).f, nestedPropName)
        rb2 == IF nestedGiven
               THEN Put(rb1, propName,
                        Obj(Put(rb1[propName].f, nestedPropName,
                                ArgGet(args, propName).f[nestedPropName])))
               ELSE IF ArgHas(args, paramName)
               THEN Put(rb1, propName,
                        Obj(Put(rb1[propName].f, nestedPropName, ArgGet(args, paramName))))
               ELSE rb1
    IN processNestedFromNestedFirst(propName, names, i + 1, args, rb2)

\* request-handler.ts: processNestedProperties, the loop from its i-th nested name
RECURSIVE processNestedFrom(_, _, _, _, _)
processNestedFrom(propName, names, i, args, requestBody) ==
  IF i > Len(names) THEN requestBody
  ELSE
    LET nestedPropName == names[i]
        paramName == propName \o <<"_">> \o nestedPropName
        rb1 == IF Has(requestBody, propName) THEN requestBody
               ELSE Put(requestBody, propName, Obj(EmptyObj))
        nestedGiven == /\ ArgHas(args, propName)
                       /\ Truthy(ArgGet(args, propName))
                       /\ IsObj(ArgGet(args, propName))
                       /\ Has(ArgGet(args, propName).f, nestedPropName)
        rb2 == IF ArgHas(args, paramName)
               THEN Put(rb1, propName,
                        Obj(Put(rb1[propName].f, nestedPropName, ArgGet(args, paramName))))
               ELSE IF nestedGiven
               THEN Put(rb1, propName,
                        Obj(Put(rb1[propName].f, nestedPropName,
                                ArgGet(args, propName).f[nestedPropName])))
               ELSE rb1
    IN processNestedFrom(propName, names, i + 1, args, rb2)

processNestedProperties(propName, propSchemaObj, args, requestBody) ==
  IF ~propSchemaObj.hasProps THEN requestBody
  ELSE processNestedFrom(propName, propSchemaObj.properties, 1, args, requestBody)

\* request-handler.ts: processWithSchema, the loop from its i-th property
RECURSIVE processWithSchemaFrom(_, _, _, _)
processWithSchemaFrom(args, schema, i, requestBody) ==
  IF i > Len(schema.properties) THEN requestBody
  ELSE
    LET propName == schema.properties[i][1]
        propSchemaObj == schema.properties[i][2]
        rb == IF propSchemaObj.type = "object" /\ propSchemaObj.hasProps
              THEN processNestedProperties(propName, propSchemaObj, args, requestBody)
              ELSE IF ArgHas(args, propName)
              THEN Put(requestBody, propName, ArgGet(args, propName))
              ELSE requestBody
    IN processWithSchemaFrom(args, schema, i + 1, rb)

\* (a faulty variant of processWithSchema: the arguments the schema does not
\* declare are copied as they are)
processWithSchemaKeepsRest(args, schema) ==
  LET rb == IF ~schema.hasProps THEN EmptyObj
            ELSE processWithSchemaFrom(args, schema, 1, EmptyObj)
  IN Ok([k \in (DOMAIN rb) \cup ArgNames(args) |->
           IF k \in DOMAIN rb THEN rb[k] ELSE ArgGet(args, k)])

\* request-handler.ts: processWithSchema
processWithSchema(args, schema) ==
  IF ~schema.hasProps THEN Ok(EmptyObj)
  ELSE Ok(processWithSchemaFrom(args, schema, 1, EmptyObj))

(***************************************************************************)
(* request-handler.ts: processGeneric, the loop from its i-th argument.    *)
(* The module is an ES module, hence strict: creating a property on a      *)
(* string throws a TypeError.  An array takes the property silently.       *)
(***************************************************************************)
RECURSIVE processGenericFrom(_, _, _)
processGenericFrom(args, i, r) ==
  IF i > Len(args) \/ r.err THEN r
  ELSE
    LET key == args[i][1]
        value == args[i][2]
        requestBody == r.body
        parts == splitLimit(key, 2)
        parentKey == parts[1]
        childKey == parts[2]
        rb1 == IF Has(requestBody, parentKey) /\ Truthy(requestBody[parentKey])
               THEN requestBody
               ELSE Put(requestBody, parentKey, Obj(EmptyObj))
        next ==
          IF includesUnderscore(key)
          THEN IF rb1[parentKey].k = "obj"
               THEN Ok(Put(rb1, parentKey, Obj(Put(rb1[parentKey].f, childKey, value))))
               ELSE IF rb1[parentKey].k = "arr" THEN Ok(rb1)
               ELSE TypeError
          ELSE Ok(Put(requestBody, key, value))
    IN processGenericFrom(args, i + 1, next)

processGeneric(args) == processGenericFrom(args, 1, Ok(EmptyObj))

\* what the chosen strategy built from the arguments, before the defaults
fromArguments(args, tool) ==
  IF ~tool.none THEN processWithSchema(args, tool) ELSE processGeneric(args)

\* request-handler.ts: buildRequestBody
buildRequestBody(args, tool, defaults) ==
  LET requestBody == IF ~tool.none
                     THEN processWithSchema(args, tool)
                     ELSE processGeneric(args)
  IN IF requestBody.err THEN TypeError
     ELSE applyEnvironmentDefaults(requestBody.body, defaults)

(***************************************************************************)
(* The inputs of the request-body component.                               *)
(***************************************************************************)
MaxArgs == 2

nX == <<"x">>
nP == <<"p">>
nC == <<"c">>
nE == <<"e">>
nCD == <<"c", "_", "d">>
Flat(parent, child) == parent \o <<"_">> \o child

S1 == Str("1")
S2 == Str("2")
S3 == Str("3")

ArgEntries ==
  {<<nX, S1>>, <<nP, S1>>, <<nP, NULL>>,
   <<nP, Obj(nC :> S1)>>, <<nP, Obj(nCD :> S1)>>, <<nP, Obj(EmptyObj)>>,
   <<Flat(nP, nC), S1>>, <<Flat(nP, nC), S3>>, <<Flat(nP, nCD), S1>>}

BodyArgs ==
  {a \in UNION {[1..n -> ArgEntries] : n \in 0..MaxArgs} :
     \A i, j \in 1..Len(a) : i # j => a[i][1] # a[j][1]}

BodyTools ==
  {NoSchema,
   Schema(TRUE, << <<nX, PropSchema("string", FALSE, <<>>)>>,
                   <<nP, PropSchema("object", TRUE, <<nC, nCD>>)>> >>),
   Schema(TRUE, << <<nP, PropSchema("object", FALSE, <<>>)>> >>),
   Schema(FALSE, <<>>)}

BodyDefaults ==
  {EmptyObj,
   (nX :> S2),
   (nP :> S2),
   (nP :> Obj(nC :> S2)),
   (nP :> Obj(nE :> S2)),
   (nX :> ARR) @@ (nP :> NULL)}

BodyInit ==
  /\ bTool \in BodyTools
  /\ bDefaults \in BodyDefaults
  /\ bArgs \in BodyArgs
  /\ bRebuilt = NoBody
  /\ bBody = NoBody
  /\ bPc = "idle"

\* executeToolCall reaching buildRequestBody(args, tool, defaults)
BuildRequestBody ==
  /\ bPc = "idle"
  /\ bRebuilt' = fromArguments(bArgs, bTool)
  /\ bBody' = buildRequestBody(bArgs, bTool, bDefaults)
  /\ bPc' = "built"
  /\ UNCHANGED <<bTool, bDefaults, bArgs>>
  /\ UNCHANGED notBody

\* the next call of the same tool arrives with its own arguments
NextCall ==
  /\ bPc = "built"
  /\ bArgs' \in BodyArgs
  /\ bRebuilt' = NoBody
  /\ bBody' = NoBody
  /\ bPc' = "idle"
  /\ UNCHANGED <<bTool, bDefaults>>
  /\ UNCHANGED notBody

BodyNext == BuildRequestBody \/ NextCall

(***************************************************************************)
(* Claims about buildRequestBody.                                          *)
(***************************************************************************)
\* every value of `pre` is still there in `final`, nested objects included
RECURSIVE KeepsArguments(_, _)
KeepsArguments(pre, final) ==
  \A key \in DOMAIN pre :
    /\ key \in DOMAIN final
    /\ IF IsObj(pre[key]) /\ IsObj(final[key])
       THEN KeepsArguments(pre[key].f, final[key].f)
       ELSE final[key] = pre[key]

\* a scalar default shows where the arguments left the property unset
FillsUnset(pre, defaults, final) ==
  \A key \in DOMAIN defaults :
    (defaults[key].k = "str" /\ key \notin DOMAIN pre) =>
      (key \in DOMAIN final /\ final[key] = defaults[key])

\* C1: environment defaults never overwrite a value that came from the
\* arguments, at the top level or inside a nested object default; a default
\* is used only where the value was unset.
C1_DefaultsNeverOverwrite ==
  LET pre == fromArguments(bArgs, bTool)
  IN (bPc = "built" /\ ~pre.err /\ ~bBody.err) =>
       /\ KeepsArguments(pre.body, bBody.body)
       /\ FillsUnset(pre.body, bDefaults, bBody.body)

\* the tool reconstructs parent.child: it has no retained schema, or its
\* schema declares parent as an object with the nested property child
Reconstructs(tool, parent, child) ==
  \/ tool.none
  \/ \E i \in 1..Len(tool.properties) :
       /\ tool.properties[i][1] = parent
       /\ tool.properties[i][2].type = "object"
       /\ tool.properties[i][2].hasProps
       /\ \E j \in 1..Len(tool.properties[i][2].properties) :
            tool.properties[i][2].properties[j] = child

\* C2: the flat arguments {a_b: v} and the nested arguments {a: {b: v}} give
\* the identical body, which is {a: {b: v}} (plus what the defaults add), under
\* the schema-guided and under the generic strategy.
C2_FlatNestedRoundTrip ==
  \A a \in {nP} : \A b \in {nC, nCD} : \A v \in {S1, S3} :
    (bPc = "built" /\ bArgs = << <<Flat(a, b), v>> >> /\ Reconstructs(bTool, a, b)) =>
      LET nested == buildRequestBody(<< <<a, Obj(b :> v)>> >>, bTool, bDefaults)
      IN /\ bBody = nested
         /\ (bDefaults = EmptyObj => bBody = Ok(a :> Obj(b :> v)))

(***************************************************************************)
(* part_000: the specification cache and the loader.                       *)
(***************************************************************************)
CACHE_TTL == 3600 * 1000
maxRetries == 3

\* the two loads that may run; SpecLoad runs the first alone
ProcIds == {1, 2}

NoEtag == "none"
NoDoc == "none"

\* a CacheEntry {content, timestamp, etag}; present = FALSE is null
Entry(content, timestamp, etag) ==
  [present |-> TRUE, content |-> content, timestamp |-> timestamp, etag |-> etag]
NoEntry == [present |-> FALSE, content |-> NoDoc, timestamp |-> 0, etag |-> NoEtag]

\* the length of JSON.stringify(entry, null, 2), in units: the two documents
\* served differ in length
lengthOf(entry) == IF entry.content = "docA" THEN 1 ELSE 2

\* the cache file of the url: what it holds and how long it is.  A file
\* that is empty, or holds the beginning of one entry followed by the end
\* of a longer one, does not parse, as a corrupt one does not.
FileEntry(e) == [state |-> "entry", entry |-> e, len |-> lengthOf(e)]
FileAbsent == [state |-> "absent", entry |-> NoEntry, len |-> 0]
FileCorrupt == [state |-> "corrupt", entry |-> NoEntry, len |-> 1]
FileEmpty == [state |-> "empty", entry |-> NoEntry, len |-> 0]
FileMixed(e, len) == [state |-> "mixed", entry |-> e, len |-> len]

\* writeFile after its open: the text of the entry is written from offset
\* 0 on, over whatever the file holds by then
written(file, entry) ==
  IF file.len > lengthOf(entry) THEN FileMixed(entry, file.len) ELSE FileEntry(entry)

\* (a faulty variant of expired: an entry lives one millisecond too long)
expiredLate(entry, t) == t - entry.timestamp > CACHE_TTL + 1

\* getCachedSpec: the test `Date.now() - entry.timestamp > CACHE_TTL`
expired(entry, t) == t - entry.timestamp > CACHE_TTL

\* getCachedSpec when the directory and the file can be read
getCachedSpec(file, t) ==
  IF file.state = "entry" /\ ~expired(file.entry, t) THEN file.entry ELSE NoEntry

\* (a faulty variant of backoffDelay: the exponent is one too high)
backoffDelayDoubled(i) == Min(1000 * (2 ^ (i + 1)), 5000)

\* fetchWithRetry: the delay after the failure of attempt i (from 0)
backoffDelay(i) == Min(1000 * (2 ^ i), 5000)

\* fetchWithRetry: `if (cachedEtag) headers['If-None-Match'] = cachedEtag`
ifNoneMatch(cached) == IF cached.present THEN cached.etag ELSE NoEtag

\* the documents a GET, a file or a caller may give; the last one has no
\* `paths`
ServedDocs == {"docA", "docB", "noPaths"}

\* validateSpec: `if (!spec.paths) throw`
validateSpec(doc) == doc # "noPaths"

\* the answers a GET can get
ServedEtags == {NoEtag, "e1", "e2"}
Response(kind, content, etag) == [kind |-> kind, content |-> content, etag |-> etag]
Failures ==
  {Response(k, NoDoc, NoEtag) : k \in {"httpError", "networkError", "emptyBody", "unparsable"}}
Responses ==
  {Response("notModified", NoDoc, NoEtag)} \cup Failures
    \cup {Response("ok", c, e) : c \in ServedDocs, e \in ServedEtags}

Served == {Response("ok", c, e) : c \in ServedDocs, e \in ServedEtags}

NoResult == [kind |-> "none", content |-> NoDoc, error |-> "none"]
Returned(content) == [kind |-> "doc", content |-> content, error |-> "none"]
Thrown(error) == [kind |-> "error", content |-> NoDoc, error |-> error]

NoRead == [at |-> 0, file |-> FileAbsent, fault |-> FALSE]

LoadState(source) ==
  [source |-> source,        \* "url", "path" or "doc"
   pc |-> "start",
   cached |-> NoEntry,       \* loadOpenAPISpec: cached
   read |-> NoRead,          \* what getCachedSpec met: the clock, the file, a fault
   i |-> 0,                  \* fetchWithRetry: i
   headers |-> <<>>,         \* the If-None-Match header of each GET sent
   sentAt |-> <<>>,          \* when each GET was sent
   failedAt |-> <<>>,        \* when each attempt failed
   delays |-> <<>>,          \* the delays slept
   answers304 |-> 0,         \* how many attempts were answered 304
   lastAnswer |-> "none",    \* the kind of the last answer
   wakeAt |-> 0,             \* when the running timer fires
   fetched |-> NoEntry,      \* fetchWithRetry's result, then setCachedSpec's entry
   setCached |-> FALSE,      \* whether setCachedSpec was called and has returned
   stored |-> FALSE,         \* whether writeFile wrote the entry
   valid |-> "unknown",      \* what validateSpec said of the document returned
   revalidated |-> FALSE,    \* whether the load before this one ended in a 304
   result |-> NoResult]      \* what loadOpenAPISpec returned or threw
Off == [LoadState("url") EXCEPT !.pc = "off"]

StartTimes == {0, CACHE_TTL, CACHE_TTL + 1}
StartFiles ==
  {FileAbsent, FileCorrupt,
   FileEntry(Entry("docA", 0, "e1")), FileEntry(Entry("docA", 0, NoEtag))}
Sources == {"url", "path", "doc"}

LoadInit ==
  /\ cacheFile \in StartFiles
  /\ now \in StartTimes
  /\ \E src \in Sources : load = [p \in ProcIds |-> IF p = 1 THEN LoadState(src) ELSE Off]
  /\ loads = 1

Set(p, r) == load' = [load EXCEPT ![p] = r]

\* loadOpenAPISpec: `typeof specPath !== 'string'`, the document is returned as it is
LoadDocument(p) ==
  /\ load[p].pc = "start" /\ load[p].source = "doc"
  /\ \E doc \in ServedDocs :
       Set(p, [load[p] EXCEPT !.pc = "done", !.result = Returned(doc)])
  /\ UNCHANGED <<cacheFile, now, loads, notLoad>>

\* loadOpenAPISpec: a local path is read and parsed as YAML or JSON
LoadPath(p) ==
  /\ load[p].pc = "start" /\ load[p].source = "path"
  /\ \/ \E doc \in ServedDocs :
          Set(p, [load[p] EXCEPT !.pc = "done", !.result = Returned(doc)])
     \/ \E e \in {"notFound", "parseFailure"} :
          Set(p, [load[p] EXCEPT !.pc = "failed", !.result = Thrown(e)])
  /\ UNCHANGED <<cacheFile, now, loads, notLoad>>

\* loadOpenAPISpec: `const cached = await getCachedSpec(specPath)`; any error
\* of mkdir, readFile or JSON.parse is caught and gives null
GetCachedSpec(p) ==
  /\ load[p].pc = "start" /\ load[p].source = "url"
  /\ \E fault \in BOOLEAN :
       Set(p, [load[p] EXCEPT
                 !.pc = "request",
                 !.cached = IF fault THEN NoEntry ELSE getCachedSpec(cacheFile, now),
                 !.read = [at |-> now, file |-> cacheFile, fault |-> fault]])
  /\ UNCHANGED <<cacheFile, now, loads, notLoad>>

\* fetchWithRetry: `await fetch(url, { headers })`
SendRequest(p) ==
  /\ load[p].pc = "request"
  /\ load[p].i < maxRetries
  /\ Set(p, [load[p] EXCEPT !.pc = "waiting",
                            !.headers = Append(@, ifNoneMatch(load[p].cached)),
                            !.sentAt = Append(@, now)])
  /\ UNCHANGED <<cacheFile, now, loads, notLoad>>

\* (a faulty variant of afterFailure: when the last attempt has failed, a
\* cached entry is returned in place of the error)
afterFailureFallsBack(l, answer, t) ==
  LET l1 == [l EXCEPT !.failedAt = Append(@, t), !.lastAnswer = answer.kind]
  IN IF l.i < maxRetries - 1
     THEN [l1 EXCEPT !.pc = "backoff",
                     !.delays = Append(@, backoffDelay(l.i)),
                     !.wakeAt = t + backoffDelay(l.i)]
     ELSE IF l.cached.present
     THEN [l1 EXCEPT !.pc = "done", !.i = l.i + 1,
                     !.result = Returned(l.cached.content)]
     ELSE [l1 EXCEPT !.pc = "failed", !.i = l.i + 1,
                     !.result = Thrown("fetchFailure")]

\* fetchWithRetry's catch block for an error other than USE_CACHED_VERSION
afterFailure(l, answer, t) ==
  LET l1 == [l EXCEPT !.failedAt = Append(@, t), !.lastAnswer = answer.kind]
  IN IF l.i < maxRetries - 1
     THEN [l1 EXCEPT !.pc = "backoff",
                     !.delays = Append(@, backoffDelay(l.i)),
                     !.wakeAt = t + backoffDelay(l.i)]
     ELSE [l1 EXCEPT !.pc = "failed", !.i = l.i + 1,
                     !.result = Thrown("fetchFailure")]

\* (a faulty variant of afterAnswer: USE_CACHED_VERSION is not singled out, a 304 is
\* retried like every other error)
afterAnswerRetries304(l, answer, t) ==
  IF answer.kind = "notModified"
  THEN afterFailure([l EXCEPT !.answers304 = @ + 1], answer, t)
  ELSE IF answer.kind = "ok"
  THEN [l EXCEPT !.pc = "mkdir", !.lastAnswer = answer.kind,
                 !.fetched = Entry(answer.content, 0, answer.etag)]
  ELSE afterFailure(l, answer, t)

\* (a faulty variant of afterAnswer: every 304 is answered from `cached`, also when
\* there is none)
afterAnswerTrusts304(l, answer, t) ==
  IF answer.kind = "notModified"
  THEN [l EXCEPT !.answers304 = @ + 1, !.pc = "done", !.lastAnswer = answer.kind,
                 !.result = Returned(l.cached.content)]
  ELSE IF answer.kind = "ok"
  THEN [l EXCEPT !.pc = "mkdir", !.lastAnswer = answer.kind,
                 !.fetched = Entry(answer.content, 0, answer.etag)]
  ELSE afterFailure(l, answer, t)

\* (a faulty variant of afterAnswer: a document is validated before it is
\* cached, and one without paths is returned without being stored)
afterAnswerValidatesFirst(l, answer, t) ==
  IF answer.kind = "notModified"
  THEN LET l1 == [l EXCEPT !.answers304 = @ + 1]
       IN IF ifNoneMatch(l.cached) # NoEtag
          THEN [l1 EXCEPT !.pc = "done", !.lastAnswer = answer.kind,
                          !.result = Returned(l.cached.content)]
          ELSE afterFailure(l1, answer, t)
  ELSE IF answer.kind = "ok"
  THEN IF validateSpec(answer.content)
       THEN [l EXCEPT !.pc = "mkdir", !.lastAnswer = answer.kind,
                      !.fetched = Entry(answer.content, 0, answer.etag)]
       ELSE [l EXCEPT !.pc = "done", !.lastAnswer = answer.kind,
                      !.fetched = Entry(answer.content, 0, answer.etag),
                      !.result = Returned(answer.content)]
  ELSE afterFailure(l, answer, t)

\* (a faulty variant of afterAnswer: a 304 revalidation stores the cached
\* entry again, under a new timestamp)
afterAnswerRefreshes(l, answer, t) ==
  IF answer.kind = "notModified"
  THEN LET l1 == [l EXCEPT !.answers304 = @ + 1]
       IN IF ifNoneMatch(l.cached) # NoEtag
          THEN [l1 EXCEPT !.pc = "mkdir", !.lastAnswer = answer.kind,
                          !.fetched = l.cached]
          ELSE afterFailure(l1, answer, t)
  ELSE IF answer.kind = "ok"
  THEN [l EXCEPT !.pc = "mkdir", !.lastAnswer = answer.kind,
                 !.fetched = Entry(answer.content, 0, answer.etag)]
  ELSE afterFailure(l, answer, t)

\* fetchWithRetry from the answer on, and loadOpenAPISpec's catch block
afterAnswer(l, answer, t) ==
  IF answer.kind = "notModified"
  THEN LET l1 == [l EXCEPT !.answers304 = @ + 1]
       IN IF ifNoneMatch(l.cached) # NoEtag
          THEN \* USE_CACHED_VERSION is rethrown; loadOpenAPISpec has `cached`
               [l1 EXCEPT !.pc = "done", !.lastAnswer = answer.kind,
                          !.result = Returned(l.cached.content)]
          ELSE \* `!response.ok`: HTTP error! status: 304
               afterFailure(l1, answer, t)
  ELSE IF answer.kind = "ok"
  THEN [l EXCEPT !.pc = "mkdir", !.lastAnswer = answer.kind,
                 !.fetched = Entry(answer.content, 0, answer.etag)]
  ELSE afterFailure(l, answer, t)

ReceiveAnswer(p) ==
  /\ load[p].pc = "waiting"
  /\ \E answer \in Responses : Set(p, afterAnswer(load[p], answer, now))
  /\ UNCHANGED <<cacheFile, now, loads, notLoad>>

\* the same, of a server that is up and answers every GET with a document
ReceiveServed(p) ==
  /\ load[p].pc = "waiting"
  /\ \E answer \in Served : Set(p, afterAnswer(load[p], answer, now))
  /\ UNCHANGED <<cacheFile, now, loads, notLoad>>

\* fetchWithRetry: the timer of `setTimeout(resolve, delay)` fires
Retry(p) ==
  /\ load[p].pc = "backoff"
  /\ now' = Max(now, load[p].wakeAt)
  /\ Set(p, [load[p] EXCEPT !.pc = "request", !.i = @ + 1])
  /\ UNCHANGED <<cacheFile, loads, notLoad>>

\* (a faulty variant of afterSetCachedSpec: an entry that was not stored
\* makes the load fail)
afterSetCachedSpecStrict(l, stored) ==
  IF stored
  THEN [l EXCEPT !.pc = "done", !.stored = stored,
                 !.result = Returned(l.fetched.content)]
  ELSE [l EXCEPT !.pc = "failed", !.result = Thrown("cacheFailure")]

\* loadOpenAPISpec after `await setCachedSpec(...)`, which catches and logs
\* whatever mkdir, open or write throws: `return content`
afterSetCachedSpec(l, stored) ==
  [l EXCEPT !.pc = "done", !.setCached = TRUE, !.stored = stored,
            !.result = Returned(l.fetched.content)]

\* setCachedSpec: ensureCacheDir, then the entry with `timestamp: Date.now()`;
\* a failing mkdir is logged and setCachedSpec returns
BuildEntry(p) ==
  /\ load[p].pc = "mkdir"
  /\ \/ Set(p, [load[p] EXCEPT !.pc = "writing", !.fetched.timestamp = now])
     \/ Set(p, afterSetCachedSpec(load[p], FALSE))
  /\ UNCHANGED <<cacheFile, now, loads, notLoad>>

\* setCachedSpec: writeFile opens the file with the flag w, which creates
\* or truncates it; a failing open is logged; then `return content`
OpenFile(p) ==
  /\ load[p].pc = "writing"
  /\ \/ /\ cacheFile' = FileEmpty
        /\ Set(p, [load[p] EXCEPT !.pc = "opened"])
     \/ /\ UNCHANGED cacheFile
        /\ Set(p, afterSetCachedSpec(load[p], FALSE))
  /\ UNCHANGED <<now, loads, notLoad>>

\* setCachedSpec: writeFile writes the text through its own descriptor; a
\* failing write is logged; then `return content`
WriteFile(p) ==
  /\ load[p].pc = "opened"
  /\ \/ /\ cacheFile' = written(cacheFile, load[p].fetched)
        /\ Set(p, afterSetCachedSpec(load[p], TRUE))
     \/ /\ UNCHANGED cacheFile
        /\ Set(p, afterSetCachedSpec(load[p], FALSE))
  /\ UNCHANGED <<now, loads, notLoad>>

\* parseOpenAPISpec: `validateSpec(spec)` on what loadOpenAPISpec returned
ValidateSpec(p) ==
  /\ load[p].pc = "done" /\ load[p].valid = "unknown"
  /\ Set(p, [load[p] EXCEPT
               !.valid = IF validateSpec(load[p].result.content) THEN "yes" ELSE "no"])
  /\ UNCHANGED <<cacheFile, now, loads, notLoad>>

MaxLoads == 2

\* the times a later load may start at: at once, or when the entry in the
\* cache is one TTL old, or a millisecond after that
LaterTimes ==
  {now} \cup {t \in {cacheFile.entry.timestamp + CACHE_TTL,
                      cacheFile.entry.timestamp + CACHE_TTL + 1} :
                cacheFile.state = "entry" /\ t >= now}

\* parseOpenAPISpec is called again, after the call before it has ended
NextLoad(p) ==
  /\ \/ load[p].pc = "failed"
     \/ load[p].pc = "done" /\ load[p].valid # "unknown"
  /\ loads < MaxLoads
  /\ loads' = loads + 1
  /\ now' \in LaterTimes
  /\ \E src \in Sources :
       Set(p, [LoadState(src) EXCEPT
                 !.revalidated = load[p].pc = "done" /\ load[p].lastAnswer = "notModified"])
  /\ UNCHANGED <<cacheFile, notLoad>>

LoadStep(p) ==
  \/ ValidateSpec(p)
  \/ NextLoad(p)
  \/ LoadDocument(p)
  \/ LoadPath(p)
  \/ GetCachedSpec(p)
  \/ SendRequest(p)
  \/ ReceiveAnswer(p)
  \/ Retry(p)
  \/ BuildEntry(p)
  \/ OpenFile(p)
  \/ WriteFile(p)

LoadNext == \E p \in ProcIds : LoadStep(p)

\* two loads of one url that is not cached yet, started together, while
\* the server answers every GET (no attempt fails, so none is retried)
RaceInit ==
  /\ cacheFile = FileAbsent
  /\ now = 0
  /\ load = [p \in ProcIds |-> LoadState("url")]
  /\ loads = 2

RaceStep(p) ==
  \/ GetCachedSpec(p)
  \/ SendRequest(p)
  \/ ReceiveServed(p)
  \/ BuildEntry(p)
  \/ OpenFile(p)
  \/ WriteFile(p)

RaceNext == \E p \in ProcIds : RaceStep(p)

BodyIdle ==
  /\ bTool = NoSchema /\ bDefaults = EmptyObj /\ bArgs = <<>>
  /\ bRebuilt = NoBody /\ bBody = NoBody /\ bPc = "idle"

LoadIdle ==
  /\ cacheFile = FileAbsent /\ now = 0
  /\ load = [p \in ProcIds |-> Off]
  /\ loads = 0

(***************************************************************************)
(* Text.  A string is the sequence of its characters, so that split, trim, *)
(* startsWith, slice and the regular expressions are computed.             *)
(***************************************************************************)
Whitespace == {" ", "\n", "\t", "\r"}

RECURSIVE trimStart(_)
trimStart(s) ==
  IF s # <<>> /\ Head(s) \in Whitespace THEN trimStart(Tail(s)) ELSE s

RECURSIVE trimEnd(_)
trimEnd(s) ==
  IF s # <<>> /\ s[Len(s)] \in Whitespace
  THEN trimEnd(SubSeq(s, 1, Len(s) - 1)) ELSE s

\* String.prototype.trim
trim(s) == trimEnd(trimStart(s))

\* (a faulty variant of trim: nothing is trimmed)
trimNothing(s) == s

\* does `piece` stand in s at position p (from 1)
standsAt(s, piece, p) ==
  /\ p >= 1
  /\ p + Len(piece) - 1 <= Len(s)
  /\ SubSeq(s, p, p + Len(piece) - 1) = piece

\* String.prototype.startsWith
startsWith(s, prefix) == standsAt(s, prefix, 1)

\* String.prototype.indexOf from position p, 0 when there is none
indexOf(s, piece, p) ==
  LET at == {q \in p..Len(s) : standsAt(s, piece, q)}
  IN IF at = {} THEN 0 ELSE CHOOSE q \in at : \A r \in at : q <= r

\* String.prototype.split with a separator string and no limit
RECURSIVE split(_, _)
split(s, separator) ==
  LET p == indexOf(s, separator, 1)
  IN IF p = 0 THEN <<s>>
     ELSE <<SubSeq(s, 1, p - 1)>>
            \o split(SubSeq(s, p + Len(separator), Len(s)), separator)

\* String.prototype.slice(n)
slice(s, n) == SubSeq(s, n + 1, Len(s))

\* String.prototype.toUpperCase, on the letters the verbs are written with
UpperOf(c) ==
  CASE c = "g" -> "G" [] c = "e" -> "E" [] c = "t" -> "T" [] c = "p" -> "P"
    [] c = "o" -> "O" [] c = "s" -> "S" [] c = "d" -> "D" [] c = "l" -> "L"
    [] c = "r" -> "R" [] c = "v" -> "V" [] c = "u" -> "U"
    [] OTHER -> c
toUpperCase(s) == [i \in 1..Len(s) |-> UpperOf(s[i])]

\* Array.prototype.map(s => s.trim())
mapTrim(pieces) == [i \in 1..Len(pieces) |-> trim(pieces[i])]

\* Array.prototype.includes
includes(list, x) == \E i \in 1..Len(list) : list[i] = x

(***************************************************************************)
(* Schema objects.  Every schema value has the same fields; `kind` tells a *)
(* schema object from a $ref and from an absent value, and type "" is a    *)
(* schema object without `type`.  `props` keeps Object.entries order.      *)
(***************************************************************************)
Node(type, description, hasProps, props, hasReq, req) ==
  [kind |-> "node", type |-> type, description |-> description,
   hasProps |-> hasProps, props |-> props, hasReq |-> hasReq, req |-> req,
   items |-> "none"]
Leaf(type, description) == Node(type, description, FALSE, <<>>, FALSE, <<>>)
\* an array schema with `items` of the given type
ArrayOf(itemType, description) ==
  [Leaf("array", description) EXCEPT !.items = itemType]
EmptyNode == Leaf("", "")                               \* {}
RefSch == [EmptyNode EXCEPT !.kind = "ref"]             \* {$ref: ...}
NoSch == [EmptyNode EXCEPT !.kind = "absent"]           \* undefined

propNames(props) == {props[i][1] : i \in 1..Len(props)}
propOf(props, name) ==
  props[CHOOSE i \in 1..Len(props) : props[i][1] = name][2]

\* obj[name] = value on an object whose entries keep their order
setProp(props, name, value) ==
  IF name \in propNames(props)
  THEN [i \in 1..Len(props) |->
          IF props[i][1] = name THEN <<name, value>> ELSE props[i]]
  ELSE Append(props, <<name, value>>)

\* `${name} parameter` unless a description is given
describe(name, description) ==
  IF description # "" THEN description ELSE name \o " parameter"

(***************************************************************************)
(* part_000: the schema helpers of the multiplexing deriver.               *)
(***************************************************************************)
createEmptySchema == Node("object", "", TRUE, <<>>, TRUE, <<>>)

isReferenceObject(obj) == obj.kind = "ref"

\* (a faulty variant of addPropertyToSchema: only the type and the
\* description of the property are kept)
addPropertyCoarsely(schema, propName, propSchema, isRequired) ==
  IF propSchema.kind = "ref" THEN schema
  ELSE [schema EXCEPT
          !.hasProps = TRUE,
          !.props = setProp(IF schema.hasProps THEN schema.props ELSE <<>>, propName,
                            Leaf(propSchema.type, propSchema.description)),
          !.hasReq = @ \/ isRequired,
          !.req = IF isRequired /\ ~includes(@, propName) THEN Append(@, propName) ELSE @]

addPropertyToSchema(schema, propName, propSchema, isRequired) ==
  IF isReferenceObject(propSchema) THEN schema
  ELSE LET withProp ==
             [schema EXCEPT
                !.hasProps = TRUE,
                !.props = setProp(IF schema.hasProps THEN schema.props ELSE <<>>,
                                  propName, propSchema)]
           required == IF withProp.hasReq THEN withProp.req ELSE <<>>
       IN IF isRequired
          THEN [withProp EXCEPT
                  !.hasReq = TRUE,
                  !.req = IF includes(required, propName) THEN required
                          ELSE Append(required, propName)]
          ELSE withProp

RECURSIVE addRequestBodyFrom(_, _, _)
addRequestBodyFrom(requestBodySchema, i, inputSchema) ==
  IF i > Len(requestBodySchema.props) THEN inputSchema
  ELSE addRequestBodyFrom(
         requestBodySchema, i + 1,
         addPropertyToSchema(
           inputSchema, requestBodySchema.props[i][1], requestBodySchema.props[i][2],
           requestBodySchema.hasReq
             /\ includes(requestBodySchema.req, requestBodySchema.props[i][1])))

addRequestBodyToSchema(requestBodySchema, inputSchema) ==
  IF ~requestBodySchema.hasProps THEN inputSchema
  ELSE addRequestBodyFrom(requestBodySchema, 1, inputSchema)

createParameterSchema(param) ==
  IF param.schema.kind # "node" THEN EmptyNode
  ELSE Leaf(IF param.schema.type # "" THEN param.schema.type ELSE "string",
            describe(param.name, param.description))

RECURSIVE addParametersFrom(_, _, _)
addParametersFrom(parameters, i, schema) ==
  IF i > Len(parameters) THEN schema
  ELSE addParametersFrom(
         parameters, i + 1,
         IF parameters[i].ref THEN schema
         ELSE addPropertyToSchema(schema, parameters[i].name,
                                  createParameterSchema(parameters[i]),
                                  parameters[i].required))

addParametersToSchema(parameters, schema) == addParametersFrom(parameters, 1, schema)

\* (a faulty variant of cleanupSchema: the schema is left as it was built)
cleanupNothing(schema) == schema

cleanupSchema(schema) ==
  LET noProps == [schema EXCEPT
                    !.hasProps = IF ~schema.hasProps \/ Len(schema.props) = 0
                                 THEN FALSE ELSE @]
  IN [noProps EXCEPT
        !.hasReq = IF ~schema.hasReq \/ Len(schema.req) = 0 THEN FALSE ELSE @]

(***************************************************************************)
(* part_000: createToolsFromOperation.  An absent summary, description or  *)
(* operationId is the empty string: the code tests them with `||`.         *)
(***************************************************************************)
Metadata(method, path, parameters, requestBodySchema) ==
  [method |-> toUpperCase(method), originalPath |-> path,
   parameters |-> parameters, requestBodySchema |-> requestBodySchema]

Tool(name, description, inputSchema, metadata) ==
  [name |-> name, description |-> description,
   inputSchema |-> inputSchema, metadata |-> metadata]

\* operation.requestBody.content[Object.keys(content)[0]]?.schema
firstContentSchema(requestBody) ==
  IF Len(requestBody.schemas) = 0 THEN NoSch ELSE requestBody.schemas[1]

\* (a faulty variant of segmentAt: past the last segment, the last segment again)
segmentAtClamped(segments, index) == segments[Min(index + 1, Len(segments))]

\* segments[index % segments.length]
segmentAt(segments, index) == segments[(index % Len(segments)) + 1]

summarySegments(operation) == mapTrim(split(operation.summary, <<"|">>))
descriptionSegments(operation) == mapTrim(split(operation.description, <<"|">>))

createToolsFromOperation(path, method, operation) ==
  LET withParameters ==
        IF operation.hasParams
        THEN addParametersToSchema(operation.parameters, createEmptySchema)
        ELSE createEmptySchema
      schema == IF operation.requestBody.kind = "content"
                THEN firstContentSchema(operation.requestBody) ELSE NoSch
      retained == schema.kind = "node"
      built == IF retained THEN addRequestBodyToSchema(schema, withParameters)
               ELSE withParameters
      inputSchema == cleanupSchema(built)
      metadata == Metadata(method, path,
                           IF operation.hasParams THEN operation.parameters ELSE <<>>,
                           IF retained THEN schema ELSE NoSch)
      summaries == summarySegments(operation)
      descriptions == descriptionSegments(operation)
      maxLength == Max(Len(summaries), Len(descriptions))
  IN [k \in 1..maxLength |->
        LET index == k - 1
            segment == segmentAt(summaries, index)
            name == IF segment # <<>> THEN segment ELSE method \o <<" ">> \o path
            text == segmentAt(descriptions, index)
            description == IF text # <<>> THEN text ELSE name
        IN Tool(name, description, inputSchema, metadata)]

(***************************************************************************)
(* src/src/openapi-parser.ts: ParameterProcessor and refisterTool.         *)
(***************************************************************************)
createBaseSchema == Node("object", "", TRUE, <<>>, TRUE, <<>>)

RECURSIVE processRequestBodyFrom(_, _, _)
processRequestBodyFrom(requestBodySchema, i, inputSchema) ==
  IF i > Len(requestBodySchema.props) THEN inputSchema
  ELSE LET propName == requestBodySchema.props[i][1]
           propSchema == requestBodySchema.props[i][2]
           copied == [inputSchema EXCEPT
                        !.props = setProp(@, propName, propSchema)]
           required == IF copied.hasReq THEN copied.req ELSE <<>>
       IN processRequestBodyFrom(
            requestBodySchema, i + 1,
            IF propSchema.kind = "ref" THEN inputSchema
            ELSE IF requestBodySchema.hasReq
                    /\ includes(requestBodySchema.req, propName)
            THEN [copied EXCEPT
                    !.hasReq = TRUE,
                    !.req = IF includes(required, propName) THEN required
                            ELSE Append(required, propName)]
            ELSE copied)

processRequestBody(requestBodySchema, inputSchema) ==
  IF ~requestBodySchema.hasProps THEN inputSchema
  ELSE processRequestBodyFrom(requestBodySchema, 1, inputSchema)

addParameterToSchema(param, schema) ==
  LET opened == [schema EXCEPT !.hasProps = TRUE]
      withProp ==
        IF param.schema.kind = "node"
        THEN [opened EXCEPT
                !.props = setProp(@, param.name,
                                  Leaf(IF param.schema.type # "" THEN param.schema.type
                                       ELSE "string",
                                       describe(param.name, param.description)))]
        ELSE opened
      required == IF withProp.hasReq THEN withProp.req ELSE <<>>
  IN IF param.required
     THEN [withProp EXCEPT
             !.hasReq = TRUE,
             !.req = IF includes(required, param.name) THEN required
                     ELSE Append(required, param.name)]
     ELSE withProp

RECURSIVE processParametersFrom(_, _, _)
processParametersFrom(parameters, i, baseSchema) ==
  IF i > Len(parameters) THEN baseSchema
  ELSE processParametersFrom(
         parameters, i + 1,
         IF parameters[i].ref THEN baseSchema
         ELSE addParameterToSchema(parameters[i], baseSchema))

processParameters(parameters, baseSchema) ==
  processParametersFrom(parameters, 1, baseSchema)

\* path.replace(/\//g, "_").replace(/^_/, "")
pathToName(path) ==
  LET replaced == [i \in 1..Len(path) |-> IF path[i] = "/" THEN "_" ELSE path[i]]
  IN IF replaced # <<>> /\ Head(replaced) = "_" THEN Tail(replaced) ELSE replaced

\* the body of refisterTool's loop for one operation: the tool it registers
toolOfOperation(path, method, operation) ==
  LET toolName == IF operation.description # <<>> THEN operation.description
                  ELSE IF operation.operationId # <<>> THEN operation.operationId
                  ELSE method \o <<"-">> \o pathToName(path)
      toolDescription == IF operation.summary # <<>> THEN operation.summary
                         ELSE toolName
      requestBodySchema ==
        IF operation.requestBody.kind = "content"
           /\ Len(operation.requestBody.schemas) > 0
        THEN operation.requestBody.schemas[1] ELSE NoSch
      metadata == Metadata(method, path,
                           IF operation.hasParams THEN operation.parameters ELSE <<>>,
                           requestBodySchema)
      withParameters ==
        IF operation.hasParams
        THEN processParameters(operation.parameters, createBaseSchema)
        ELSE createBaseSchema
      withBody == processRequestBody(requestBodySchema, withParameters)
      inputSchema ==
        IF requestBodySchema.kind = "absent" THEN withParameters
        ELSE IF requestBodySchema.hasReq
        THEN [withBody EXCEPT !.hasReq = TRUE, !.req = requestBodySchema.req]
        ELSE withBody
  IN Tool(toolName, toolDescription, inputSchema, metadata)

(***************************************************************************)
(* The registry: a Map keyed by tool name, in insertion order.             *)
(***************************************************************************)
toolNames(tools) == {tools[i].name : i \in 1..Len(tools)}

\* (a faulty variant of mapSet: a name that is taken keeps its tool)
mapSetKeepsFirst(tools, tool) ==
  IF \E i \in 1..Len(tools) : tools[i].name = tool.name THEN tools
  ELSE Append(tools, tool)

\* Map.prototype.set(tool.name, tool)
mapSet(tools, tool) ==
  IF tool.name \in toolNames(tools)
  THEN [i \in 1..Len(tools) |-> IF tools[i].name = tool.name THEN tool ELSE tools[i]]
  ELSE Append(tools, tool)

\* newTools.forEach(tool => tools.set(tool.name, tool))
RECURSIVE setAll(_, _, _)
setAll(tools, newTools, i) ==
  IF i > Len(newTools) THEN tools
  ELSE setAll(mapSet(tools, newTools[i]), newTools, i + 1)

\* Map.prototype.get
mapGet(tools, name) == tools[CHOOSE i \in 1..Len(tools) : tools[i].name = name]

(***************************************************************************)
(* Deriving the registry from a document, one path item at a time, by      *)
(* either parser.                                                          *)
(***************************************************************************)
MaxPaths == 2

Parsers == {"part_000", "openapi-parser.ts"}

Param(name, required, schema, description) ==
  [ref |-> FALSE, name |-> name, required |-> required,
   schema |-> schema, description |-> description]
RefParam == [Param("", FALSE, NoSch, "") EXCEPT !.ref = TRUE]

NoRequestBody == [kind |-> "none", schemas |-> <<>>]
RefRequestBody == [kind |-> "ref", schemas |-> <<>>]
Content(schemas) == [kind |-> "content", schemas |-> schemas]

Operation(summary, description, operationId, hasParams, parameters, requestBody) ==
  [summary |-> summary, description |-> description, operationId |-> operationId,
   hasParams |-> hasParams, parameters |-> parameters, requestBody |-> requestBody]

\* a path item: the operation under the key `method` and, before it in the
\* order of Object.entries, its other entries
ItemWith(others, method, operation) ==
  [kind |-> "item", others |-> others, method |-> method, operation |-> operation]
Item(method, operation) == ItemWith(<<>>, method, operation)
RefItem == [Item(<<>>, Operation(<<>>, <<>>, <<>>, FALSE, <<>>, NoRequestBody))
              EXCEPT !.kind = "ref"]

GET == <<"g", "e", "t">>
POST == <<"p", "o", "s", "t">>
PUT == <<"p", "u", "t">>

\* an operation object without a field: what the code reads from any object
\* that is not an operation (an array, a {$ref: ...})
NoFields == Operation(<<>>, <<>>, <<>>, FALSE, <<>>, NoRequestBody)

\* an entry of a path item: its key and what its value is, "operation",
\* "string" (a non-empty one), "array", "ref" ({$ref: ...}) or "null"
PathEntry(key, kind) == [key |-> key, kind |-> kind, operation |-> NoFields]
OperationEntry(method, operation) ==
  [key |-> method, kind |-> "operation", operation |-> operation]
entriesOf(item) == item.others \o <<OperationEntry(item.method, item.operation)>>

\* the result of handling one path item: the tools handed to tools.set, and
\* whether a TypeError was thrown on the way
Made(tools) == [err |-> FALSE, tools |-> tools]
MadeThenThrown(tools) == [err |-> TRUE, tools |-> tools]

\* part_000, the inner forEach over Object.entries(pathItem) from the i-th
\* entry: a falsy value and the key `parameters` are skipped; then
\* isReferenceObject evaluates '$ref' in operation, which throws on a string;
\* any other value is taken for an operation under the method `key`
RECURSIVE forEachEntryFrom(_, _, _, _)
forEachEntryFrom(path, entries, i, made) ==
  IF i > Len(entries) \/ made.err THEN made
  ELSE LET entry == entries[i]
           next ==
             IF entry.kind = "null" \/ entry.key = <<"p", "a", "r", "a", "m", "e", "t", "e", "r", "s">>
             THEN made
             ELSE IF entry.kind = "string" THEN MadeThenThrown(made.tools)
             ELSE IF entry.kind = "ref" THEN made
             ELSE Made(made.tools
                         \o createToolsFromOperation(path, entry.key, entry.operation))
       IN forEachEntryFrom(path, entries, i + 1, next)

\* openapi-parser.ts: const httpMethods
httpMethods ==
  <<GET, POST, PUT, <<"d", "e", "l", "e", "t", "e">>, <<"p", "a", "t", "c", "h">>,
    <<"o", "p", "t", "i", "o", "n", "s">>, <<"h", "e", "a", "d">>>>

\* openapi-parser.ts, the loop over httpMethods from the i-th method:
\* pathItem[method] is skipped when it is falsy, and any other value is taken
\* for an operation
RECURSIVE forEachMethodFrom(_, _, _, _)
forEachMethodFrom(path, entries, i, made) ==
  IF i > Len(httpMethods) THEN made
  ELSE LET method == httpMethods[i]
           found == {h \in 1..Len(entries) : entries[h].key = method}
           next ==
             IF found = {} THEN made
             ELSE LET entry == entries[CHOOSE h \in found : TRUE]
                  IN IF entry.kind = "null" THEN made
                     ELSE Made(Append(made.tools,
                                      toolOfOperation(path, method, entry.operation)))
       IN forEachMethodFrom(path, entries, i + 1, next)

\* what either parser makes of one entry of `paths`: an absent path item is
\* skipped by both, a path item with a $ref by part_000 (openapi-parser.ts
\* finds no method in it)
toolsOfPathItem(parser, path, item) ==
  IF item.kind # "item" THEN Made(<<>>)
  ELSE IF parser = "part_000"
  THEN forEachEntryFrom(path, entriesOf(item), 1, Made(<<>>))
  ELSE forEachMethodFrom(path, entriesOf(item), 1, Made(<<>>))

\* a request-body schema with a required scalar and a nested object
BodySchema ==
  Node("object", "", TRUE,
       << <<"q", Leaf("string", "the query")>>,
          <<"params", Node("object", "", TRUE,
                           << <<"lang", Leaf("string", "")>> >>, FALSE, <<>>)>> >>,
       TRUE, <<"q">>)

\* a request-body schema with an array that has `items`, a property that is
\* a $ref, and both of them required
ItemsSchema ==
  Node("object", "", TRUE,
       << <<"messages", ArrayOf("object", "the messages")>>,
          <<"model", RefSch>> >>,
       TRUE, <<"messages", "model">>)

PathItems ==
  { \* two variants over a body with `items` and a $ref property; the
    \* parameter has the name of a body property
    Item(POST, Operation(<<"M", "|", "N">>, <<"d", "M">>, <<>>, TRUE,
                         <<Param("messages", FALSE, Leaf("string", ""), "")>>,
                         Content(<<ItemsSchema, BodySchema>>))),
    \* a body schema that requires a property but declares none
    Item(POST, Operation(<<"R">>, <<>>, <<>>, FALSE, <<>>,
                         Content(<<Node("object", "", FALSE, <<>>, TRUE, <<"q">>)>>))), \* summary "A|B|C", description "dA|dB"
    Item(GET, Operation(<<"A", "|", "B", "|", "C">>, <<"d", "A", "|", "d", "B">>,
                        <<>>, FALSE, <<>>, NoRequestBody)),
    \* one summary segment, two description segments
    Item(POST, Operation(<<"A">>, <<"d", "A", "|", "d", "B">>, <<"o", "p">>, TRUE,
                         <<Param("id", TRUE, Leaf("integer", ""), "")>>,
                         Content(<<BodySchema>>))),
    \* neither summary nor description, neither parameters nor body
    Item(GET, Operation(<<>>, <<>>, <<>>, FALSE, <<>>, NoRequestBody)),
    \* segments with blanks around them, `parameters: []`, a $ref body
    Item(POST, Operation(<<" ", "A", " ", "|", " ", "B", " ">>, <<>>, <<>>, TRUE,
                         <<>>, RefRequestBody)),
    \* an empty summary segment; a $ref parameter, an array parameter, a
    \* required parameter without schema; a body without content types
    Item(GET, Operation(<<"A", "|">>, <<"d", "A">>, <<>>, TRUE,
                        <<RefParam, Param("tags", FALSE, Leaf("array", ""), "the tags"),
                          Param("x", TRUE, NoSch, "")>>,
                        Content(<<>>))),
    \* a body schema without properties
    Item(POST, Operation(<<"B">>, <<>>, <<"o", "p">>, FALSE, <<>>,
                         Content(<<Leaf("object", "")>>))),
    RefItem,
    \* a path item with a summary of its own
    ItemWith(<<PathEntry(<<"s", "u", "m", "m", "a", "r", "y">>, "string")>>, GET, NoFields),
    \* a path item with servers
    ItemWith(<<PathEntry(<<"s", "e", "r", "v", "e", "r", "s">>, "array")>>, GET, NoFields),
    \* a path item with parameters, put: null and post: {$ref: ...}
    ItemWith(<<PathEntry(<<"p", "a", "r", "a", "m", "e", "t", "e", "r", "s">>, "array"),
               PathEntry(PUT, "null"), PathEntry(POST, "ref")>>, GET, NoFields) }

PathChars == <<"a", "b", "c", "d">>
pathOf(i) == <<"/", PathChars[i]>>

NullDoc == [kind |-> "null", paths |-> <<>>]
NoPathsDoc == [kind |-> "nopaths", paths |-> <<>>]
Doc(paths) == [kind |-> "doc", paths |-> paths]

Documents ==
  {NullDoc, NoPathsDoc}
    \cup {Doc(paths) : paths \in UNION {[1..n -> PathItems] : n \in 0..MaxPaths}}

NotListed == [answered |-> FALSE, tools |-> <<>>]

DeriveInit ==
  /\ dParser \in Parsers
  /\ dSpec \in Documents
  /\ dPc = "idle"
  /\ dIndex = 1
  /\ dTools = <<>>
  /\ dNewTools = <<>>
  /\ dLog = <<>>
  /\ dListed = NotListed

\* parseOpenAPISpec up to the loop: the document is loaded as it is and
\* validated (validateSpec in part_000, check in openapi-parser.ts)
ParseOpenAPISpec ==
  /\ dPc = "idle"
  /\ dPc' = IF dSpec.kind = "doc" THEN "paths" ELSE "failed"
  /\ UNCHANGED <<dParser, dSpec, dIndex, dTools, dNewTools, dLog, dListed>>
  /\ UNCHANGED notDerive

\* one round of the loop over Object.entries(spec.paths)
ForEachPath ==
  /\ dPc = "paths"
  /\ dIndex <= Len(dSpec.paths)
  /\ LET made == toolsOfPathItem(dParser, pathOf(dIndex), dSpec.paths[dIndex])
     IN /\ dNewTools' = made.tools
        /\ dTools' = setAll(dTools, made.tools, 1)
        /\ dLog' = dLog \o made.tools
        /\ dPc' = IF made.err THEN "failed" ELSE dPc
  /\ dIndex' = dIndex + 1
  /\ UNCHANGED <<dParser, dSpec, dListed>>
  /\ UNCHANGED notDerive

\* `return tools`
ReturnTools ==
  /\ dPc = "paths"
  /\ dIndex > Len(dSpec.paths)
  /\ dPc' = "done"
  /\ UNCHANGED <<dParser, dSpec, dIndex, dTools, dNewTools, dLog, dListed>>
  /\ UNCHANGED notDerive

\* server.ts, the ListTools handler: Array.from(this.tools.values())
ListTools ==
  /\ dPc = "done"
  /\ dListed' = [answered |-> TRUE, tools |-> dTools]
  /\ UNCHANGED <<dParser, dSpec, dPc, dIndex, dTools, dNewTools, dLog>>
  /\ UNCHANGED notDerive

DeriveNext == ParseOpenAPISpec \/ ForEachPath \/ ReturnTools \/ ListTools

DeriveIdle ==
  /\ dParser = "part_000" /\ dSpec = NullDoc /\ dPc = "idle"
  /\ dIndex = 1 /\ dTools = <<>> /\ dNewTools = <<>>
  /\ dLog = <<>> /\ dListed = NotListed

(***************************************************************************)
(* bin/mcpapi-use-deepseek.js (utils.ts): extractTextFromQuotes and        *)
(* extractIteratorFromQuotes: the global regular expression that reads the *)
(* quoted key and a colon, any white space, a quote, a group of characters *)
(* other than a quote, and a quote; exec is run until it finds no more.    *)
(***************************************************************************)
QUOTE == "\""
TextKey == <<QUOTE, "t", "e", "x", "t", QUOTE, ":">>
IteratorKey == <<QUOTE, "i", "t", "e", "r", "a", "t", "o", "r", QUOTE, ":">>

NoMatch == [ok |-> FALSE, group |-> <<>>, lastIndex |-> 0]

\* the first position from p on that holds no white space (\s* is greedy)
afterSpaces(input, p) ==
  LET stops == {q \in p..Len(input) : input[q] \notin Whitespace}
  IN IF stops = {} THEN Len(input) + 1 ELSE CHOOSE q \in stops : \A r \in stops : q <= r

\* the match that begins at position p, if there is one: the key, white space,
\* a quote, everything up to the next quote (the group), that quote
matchAt(input, key, p) ==
  IF ~standsAt(input, key, p) THEN NoMatch
  ELSE LET open == afterSpaces(input, p + Len(key))
           close == indexOf(input, <<QUOTE>>, open + 1)
       IN IF open > Len(input) \/ input[open] # QUOTE \/ close = 0 THEN NoMatch
          ELSE [ok |-> TRUE, group |-> SubSeq(input, open + 1, close - 1),
                lastIndex |-> close + 1]

\* while ((match = regex.exec(input)) !== null) matches.push(match[1])
RECURSIVE execAll(_, _, _)
execAll(input, key, p) ==
  IF p > Len(input) THEN <<>>
  ELSE LET match == matchAt(input, key, p)
       IN IF match.ok THEN <<match.group>> \o execAll(input, key, match.lastIndex)
          ELSE execAll(input, key, p + 1)

extractTextFromQuotes(input) == execAll(input, TextKey, 1)
extractIteratorFromQuotes(input) == execAll(input, IteratorKey, 1)

(***************************************************************************)
(* src/src/sse-response-handler.ts: parseSSEEvent and handleSSEResponse,   *)
(* the forEach loop one chunk at a time.                                   *)
(***************************************************************************)
DataPrefix == <<"d", "a", "t", "a", ":">>

\* (a faulty variant of parseSSEEvent: five characters are cut off every chunk)
parseSSEEventAlwaysSlices(chunk) == trim(slice(chunk, 5))

parseSSEEvent(chunk) ==
  IF ~startsWith(chunk, DataPrefix) THEN chunk ELSE trim(slice(chunk, 5))

\* which list handleSSEResponse takes its chunks from
chunkSource(stream) ==
  IF Len(extractTextFromQuotes(stream)) > 0 THEN "text"
  ELSE IF Len(extractIteratorFromQuotes(stream)) > 0 THEN "iterator"
  ELSE "lines"

selectChunks(stream) ==
  LET textChunks == extractTextFromQuotes(stream)
      iteratorChunks == extractIteratorFromQuotes(stream)
      lines == split(trim(stream), <<"\n", "\n">>)
  IN IF Len(textChunks) > 0 THEN textChunks
     ELSE IF Len(iteratorChunks) > 0 THEN iteratorChunks
     ELSE lines

TextBlock(text) == [type |-> "text", text |-> text]

\* the promise handleSSEResponse returns: how many times it changed state, and
\* the value or the reason it holds
NoError == [code |-> "none", message |-> 0]
Unsettled == [settled |-> 0, role |-> "none", content |-> <<>>, error |-> NoError]
Fulfilled(content) ==
  [settled |-> 1, role |-> "assistant", content |-> content, error |-> NoError]
Rejected(reason) ==
  [settled |-> 1, role |-> "none", content |-> <<>>, error |-> reason]

\* new McpError(ErrorCode.InternalError, error.message)
McpError(message) == [code |-> "InternalError", message |-> message]

\* the error thrown while chunk i is processed carries a message of its own
messageOf(i) == i

\* a promise whose resolve or reject is called again takes every call
settleAgain(promise, outcome) ==
  [outcome EXCEPT !.settled = promise.settled + 1]

\* resolve and reject of a promise: the first call settles it, a later call
\* does nothing
settle(promise, outcome) ==
  IF promise.settled > 0 THEN promise ELSE outcome

MaxPieces == 3

\* what a streamed body is made of
Pieces ==
  { TextKey \o <<" ", QUOTE, "H", "i", QUOTE>>,              \* text field Hi
    TextKey \o <<QUOTE, " ", "W", QUOTE>>,                   \* text field, blank and W
    TextKey \o <<QUOTE, "a", "\\", QUOTE, "b", "\\", QUOTE, QUOTE>>,  \* text field with escaped quotes
    TextKey \o <<QUOTE, " ", QUOTE>>,                        \* text field, one blank
    IteratorKey \o <<QUOTE, "i", "t", QUOTE>>,               \* iterator field it
    \* content field co
    <<QUOTE, "c", "o", "n", "t", "e", "n", "t", QUOTE, ":", QUOTE, "c", "o", QUOTE>>,
    <<"\n", "\n">>,                                          \* a blank line
    <<"d", "a", "t", "a", ":", " ", "x", " ">>,              \* data: x
    <<"d", "a", "t", "a", ":", " ">>,                        \* data: and a blank
    <<" ", "y">> }

RECURSIVE concat(_)
concat(pieces) == IF pieces = <<>> THEN <<>> ELSE Head(pieces) \o concat(Tail(pieces))

Streams == {concat(pieces) : pieces \in UNION {[1..n -> Pieces] : n \in 0..MaxPieces}}

SSEInit ==
  /\ sStream \in Streams
  /\ sPc = "idle"
  /\ sChunks = <<>>
  /\ sIndex = 1
  /\ contentArray = <<>>
  /\ sResult = Unsettled
  /\ sFaults = {}

\* handleSSEResponse down to the loop: the chunks are chosen
HandleSSEResponse ==
  /\ sPc = "idle"
  /\ sChunks' = selectChunks(sStream)
  /\ sIndex' = 1
  /\ contentArray' = <<>>
  /\ sPc' = "forEach"
  /\ UNCHANGED <<sStream, sResult, sFaults>>
  /\ UNCHANGED notSSE

\* the callback of chunks.forEach for one chunk: a blank chunk returns at once;
\* any other is logged, parsed and pushed, and a throw on the way is caught,
\* nothing is pushed, reject is called and forEach goes on to the next chunk
ForEachChunk ==
  /\ sPc = "forEach"
  /\ sIndex <= Len(sChunks)
  /\ LET rawChunk == sChunks[sIndex]
     IN IF trim(rawChunk) = <<>>
        THEN UNCHANGED <<contentArray, sResult, sFaults>>
        ELSE \E thrown \in BOOLEAN :
               IF thrown
               THEN /\ sFaults' = sFaults \cup {sIndex}
                    /\ sResult' = settle(sResult, Rejected(McpError(messageOf(sIndex))))
                    /\ UNCHANGED contentArray
               ELSE /\ contentArray' =
                         Append(contentArray, TextBlock(parseSSEEvent(rawChunk)))
                    /\ UNCHANGED <<sResult, sFaults>>
  /\ sIndex' = sIndex + 1
  /\ UNCHANGED <<sStream, sChunks, sPc>>
  /\ UNCHANGED notSSE

\* resolve({role: "assistant", content: contentArray}) after the loop
Resolve ==
  /\ sPc = "forEach"
  /\ sIndex > Len(sChunks)
  /\ sResult' = settle(sResult, Fulfilled(contentArray))
  /\ sPc' = "settled"
  /\ UNCHANGED <<sStream, sChunks, sIndex, contentArray, sFaults>>
  /\ UNCHANGED notSSE

SSENext == HandleSSEResponse \/ ForEachChunk \/ Resolve

SSEIdle ==
  /\ sStream = <<>> /\ sPc = "idle" /\ sChunks = <<>> /\ sIndex = 1
  /\ contentArray = <<>> /\ sResult = Unsettled /\ sFaults = {}

(***************************************************************************)
(* config.ts (part_005): parseHeaders.  The header string is a sequence of *)
(* characters, undefined being the empty one (both are falsy); the headers *)
(* are the entries of the object, in insertion order.                      *)
(***************************************************************************)
\* headerStr.replace(/^"|"$/g, ''): a double quote at either end is dropped
stripQuotes(s) ==
  LET a == IF s # <<>> /\ Head(s) = QUOTE THEN Tail(s) ELSE s
  IN IF a # <<>> /\ a[Len(a)] = QUOTE THEN SubSeq(a, 1, Len(a) - 1) ELSE a

\* the forEach over cleanHeaderStr.split(","), from its i-th piece: of
\* header.split(":") the first two pieces are the key and the value
RECURSIVE parseHeadersFrom(_, _, _)
parseHeadersFrom(pieces, i, headers) ==
  IF i > Len(pieces) THEN headers
  ELSE LET kv == split(pieces[i], <<":">>)
           key == kv[1]
           value == IF Len(kv) >= 2 THEN kv[2] ELSE <<>>
       IN parseHeadersFrom(pieces, i + 1,
            IF key # <<>> /\ value # <<>>
            THEN setProp(headers, trim(key), trim(value))
            ELSE headers)

parseHeaders(headerStr) ==
  LET parsed == IF headerStr = <<>> THEN <<>>
                ELSE parseHeadersFrom(split(trim(stripQuotes(headerStr)), <<",">>),
                                      1, <<>>)
  IN setProp(parsed, <<"Content-Type">>, <<"application/json">>)

(***************************************************************************)
(* config.ts (part_005): parseEnvironmentDefaults.  process.env is a list  *)
(* of <<name, value>> entries.  A name is the sequence of its pieces with  *)
(* every underscore a piece of its own, as the property names of a body    *)
(* are.  A value is its text and the tokens JSON.parse sees in it.         *)
(***************************************************************************)
Tok(t) == [t |-> t, name |-> <<>>, text |-> ""]
\* a string literal of a JSON text: as a property name and as a value
StrTok(name, text) == [t |-> "str", name |-> name, text |-> text]
EnvValue(text, tokens) == [text |-> text, tokens |-> tokens]

Parsed(value) == [ok |-> TRUE, value |-> value]
SyntaxError == [ok |-> FALSE, value |-> NULL]

\* JSON.parse inside an object, at the token where a member has to begin
RECURSIVE parseMembers(_, _, _)
parseMembers(tokens, i, object) ==
  IF i + 3 > Len(tokens) THEN SyntaxError
  ELSE IF tokens[i].t = "str" /\ tokens[i + 1].t = ":" /\ tokens[i + 2].t = "str"
  THEN LET o == Put(object, tokens[i].name, Str(tokens[i + 2].text))
       IN IF tokens[i + 3].t = "}"
          THEN IF i + 3 = Len(tokens) THEN Parsed(Obj(o)) ELSE SyntaxError
          ELSE IF tokens[i + 3].t = ","
          THEN parseMembers(tokens, i + 4, o)
          ELSE SyntaxError
  ELSE SyntaxError

\* JSON.parse of a text that begins with a brace or a bracket: an object
\* of string members, the empty object, the empty array; a SyntaxError
\* for anything else
JSONparse(tokens) ==
  IF Len(tokens) = 2 /\ tokens[1].t = "{" /\ tokens[2].t = "}"
  THEN Parsed(Obj(EmptyObj))
  ELSE IF Len(tokens) = 2 /\ tokens[1].t = "[" /\ tokens[2].t = "]"
  THEN Parsed(ARR)
  ELSE IF tokens[1].t = "{" THEN parseMembers(tokens, 2, EmptyObj)
  ELSE SyntaxError

DefaultPrefix == <<"DEFAULT", "_">>

\* the value stored for one variable: JSON.parse when the text starts with
\* a brace or a bracket and parses, the text itself otherwise
parsedValueOf(value) ==
  IF value.tokens # <<>> /\ value.tokens[1].t \in {"{", "["}
  THEN LET parsed == JSONparse(value.tokens)
       IN IF parsed.ok THEN parsed.value ELSE Str(value.text)
  ELSE Str(value.text)

\* the loop over Object.entries(process.env), from its i-th entry
RECURSIVE parseEnvironmentDefaultsFrom(_, _, _)
parseEnvironmentDefaultsFrom(env, i, defaults) ==
  IF i > Len(env) THEN defaults
  ELSE LET key == env[i][1]
           value == env[i][2]
           paramName == slice(key, Len(DefaultPrefix))
       IN parseEnvironmentDefaultsFrom(env, i + 1,
            IF startsWith(key, DefaultPrefix)
            THEN Put(defaults, paramName, parsedValueOf(value))
            ELSE defaults)

parseEnvironmentDefaults(env) == parseEnvironmentDefaultsFrom(env, 1, EmptyObj)

\* the environments the server is started in
English == EnvValue("English", <<>>)
SourceLangJSON ==
  EnvValue("{source_lang: English}",
           <<Tok("{"), StrTok(<<"source", "_", "lang">>, "source_lang"), Tok(":"),
             StrTok(<<"English">>, "English"), Tok("}")>>)
Environments ==
  {<<>>,
   \* DEFAULT_q=2
   << <<DefaultPrefix \o <<"q">>, EnvValue("2", <<>>)>> >>,
   \* DEFAULT_PARAMS_SOURCE_LANG=English
   << <<DefaultPrefix \o <<"PARAMS", "_", "SOURCE", "_", "LANG">>, English>> >>,
   \* DEFAULT_PARAMS={"source_lang":"English"}
   << <<DefaultPrefix \o <<"PARAMS">>, SourceLangJSON>> >>,
   \* DEFAULT_params={"source_lang":"English"}
   << <<DefaultPrefix \o <<"params">>, SourceLangJSON>> >>,
   \* DEFAULT_SERVICE_ID=svc next to API_HEADERS
   << <<<<"API", "_", "HEADERS">>, EnvValue("A:b", <<>>)>>,
      <<DefaultPrefix \o <<"SERVICE", "_", "ID">>, EnvValue("svc", <<>>)>> >>,
   \* DEFAULT_BROKEN={broken and DEFAULT_LIST=[]
   << <<DefaultPrefix \o <<"BROKEN">>,
        EnvValue("{broken", <<Tok("{"), StrTok(<<"broken">>, "broken")>>)>>,
      <<DefaultPrefix \o <<"LIST">>, EnvValue("[]", <<Tok("["), Tok("]")>>)>> >>}

(***************************************************************************)
(* server.ts: OpenAPIMCPServer, and index.ts which starts it.              *)
(*                                                                         *)
(* config.openApiSpec is a string (a path or a URL) or a document.  For a  *)
(* string, `exists` is what existsSync says of path.resolve(cwd, string)   *)
(* and `doc` what reading and parsing that file gives; for a URL the       *)
(* resolved string is <cwd>/https:/host/..., which names no file, and      *)
(* `doc` is the document the URL serves.  For a document, `doc` is it.     *)
(***************************************************************************)
MalformedDoc == [kind |-> "malformed", paths |-> <<>>, keys |-> <<>>]
KeyedDoc(keys, paths) == [kind |-> "doc", paths |-> paths, keys |-> keys]
Keyed(doc) == [kind |-> doc.kind, paths |-> doc.paths,
               keys |-> [i \in 1..Len(doc.paths) |-> pathOf(i)]]

DELETE == <<"d", "e", "l", "e", "t", "e">>
Bare == Operation(<<>>, <<>>, <<>>, FALSE, <<>>, NoRequestBody)

SpecSource(kind, exists, doc) == [kind |-> kind, exists |-> exists, doc |-> doc]

\* the documents a source may denote
ServedDoc ==
  KeyedDoc(<<pathOf(1), pathOf(2)>>,
           <<Item(GET, Bare),
             Item(POST, Operation(<<"A">>, <<"d", "A", "|", "d", "B">>, <<"o", "p">>,
                                  TRUE, <<Param("id", TRUE, Leaf("integer", ""), "")>>,
                                  Content(<<BodySchema>>)))>>)
StartDocs ==
  {MalformedDoc, Keyed(NullDoc), Keyed(NoPathsDoc), KeyedDoc(<<>>, <<>>), ServedDoc,
   \* DELETE, and POST without a request body
   KeyedDoc(<<pathOf(1), pathOf(2)>>, <<Item(DELETE, Bare), Item(POST, Bare)>>),
   \* a path item under the empty key, and two operations of one name
   KeyedDoc(<<<<>>, pathOf(1), pathOf(2)>>,
            <<Item(POST, Bare),
              Item(GET, Operation(<<>>, <<"T">>, <<>>, FALSE, <<>>, NoRequestBody)),
              Item(POST, Operation(<<>>, <<"T">>, <<>>, FALSE, <<>>,
                                   Content(<<Leaf("object", "")>>)))>>)}

SpecSources ==
  {SpecSource("path", e, d) : e \in BOOLEAN, d \in StartDocs}
    \cup {SpecSource("url", FALSE, ServedDoc), SpecSource("document", FALSE, ServedDoc)}

\* API_HEADERS: unset, one header, quoted with blanks, a value with a colon
\* in it, a piece without a value
HeaderStrings ==
  {<<>>,
   <<"A", ":", "b">>,
   <<QUOTE, "A", ":", " ", "b", ",", "C", ":", "d", QUOTE>>,
   <<"A", ":", "b", ":", "c", ",", "E">>}

\* openapi-parser.ts: check, inside parseOpenAPISpec (validateSpec in part_000)
checkAcceptsAll(openApiSpec) == openApiSpec.kind # "malformed"
check(openApiSpec) == openApiSpec.kind = "doc"

\* refisterTool, the loop over Object.entries(openApiSpec.paths) from its
\* i-th entry (part_000: the loop of parseOpenAPISpec)
RECURSIVE refisterToolFrom(_, _, _, _)
refisterToolFrom(parser, openApiSpec, i, tools) ==
  IF i > Len(openApiSpec.paths) THEN tools
  ELSE LET made == toolsOfPathItem(parser, openApiSpec.keys[i], openApiSpec.paths[i])
       IN refisterToolFrom(parser, openApiSpec, i + 1, setAll(tools, made.tools, 1))

refisterTool(parser, openApiSpec) == refisterToolFrom(parser, openApiSpec, 1, <<>>)

\* the loop throws on some path item, and parseOpenAPISpec with it
refisterToolThrows(parser, openApiSpec) ==
  \E i \in 1..Len(openApiSpec.paths) :
    toolsOfPathItem(parser, openApiSpec.keys[i], openApiSpec.paths[i]).err

(***************************************************************************)
(* Errors.  A message built by a template is the list of its layers,       *)
(* outermost first: the fixed text of the template and the tool name put   *)
(* into it; the innermost layer of a transport failure is the message of   *)
(* the error axios raised.                                                 *)
(***************************************************************************)
Layer(text, tool) == [text |-> text, tool |-> tool]

\* `Tool not found: ${name}`
toolNotFound(name) == <<Layer("Tool not found", name)>>
\* `Tool ${tool.name} is missing metadata or method or originalPath`
missingMetadata(tool) ==
  <<Layer("is missing metadata or method or originalPath", tool.name)>>
\* `Error executing tool ${name}: ${error}`, in executeToolCall and in the handler
errorExecuting(name, message) == <<Layer("Error executing tool", name)>> \o message

\* (a faulty variant of handleRequestError: the message of the error that
\* axios raised is left out)
handleRequestErrorSilent(tool, requestError) ==
  <<Layer("Failed to execute tool", tool.name)>>
\* request-handler.ts: handleRequestError
handleRequestError(tool, requestError) ==
  <<Layer("Failed to execute tool", tool.name), Layer(requestError, <<>>)>>

(***************************************************************************)
(* request-handler.ts: executeToolCall up to the request.                  *)
(***************************************************************************)
\* a property name of a schema as the name of an argument
nameOf(s) == <<s>>

\* metadata.requestBodySchema as buildRequestBody reads it: whether it is
\* there, its properties in order, and of each its type and nested names
retainedSchema(schema) ==
  IF schema.kind = "absent" THEN NoSchema
  ELSE Schema(schema.hasProps,
              [i \in 1..Len(schema.props) |->
                 LET p == schema.props[i][2]
                 IN <<nameOf(schema.props[i][1]),
                      PropSchema(p.type, p.hasProps,
                                 [j \in 1..Len(p.props) |-> nameOf(p.props[j][1])])>>])

RequestConfig(method, url, headers) ==
  [method |-> method, url |-> url, headers |-> headers,
   hasParams |-> FALSE, params |-> <<>>, hasData |-> FALSE, data |-> EmptyObj]

\* (a faulty variant of buidlConfig: the arguments always go into the body)
buidlConfigAlwaysBody(tool, args, apiBaseUrl, headers, defaults) ==
  LET config == RequestConfig(tool.metadata.method,
                              apiBaseUrl \o tool.metadata.originalPath, headers)
      body == buildRequestBody(args, retainedSchema(tool.metadata.requestBodySchema),
                               defaults)
  IN [err |-> body.err,
      config |-> [config EXCEPT !.hasData = TRUE, !.data = body.body]]

\* request-handler.ts: buidlConfig; err when buildRequestBody threw
buidlConfig(tool, args, apiBaseUrl, headers, defaults) ==
  LET config == RequestConfig(tool.metadata.method,
                              apiBaseUrl \o tool.metadata.originalPath, headers)
  IN IF config.method = <<"G", "E", "T">>
        \/ config.method = <<"D", "E", "L", "E", "T", "E">>
     THEN [err |-> FALSE, config |-> [config EXCEPT !.hasParams = TRUE, !.params = args]]
     ELSE LET body == buildRequestBody(args,
                        retainedSchema(tool.metadata.requestBodySchema), defaults)
          IN [err |-> body.err,
              config |-> [config EXCEPT !.hasData = TRUE, !.data = body.body]]

(***************************************************************************)
(* The inputs of the server component.                                     *)
(***************************************************************************)
ApiBaseUrl == <<"h", ":", "/", "/", "x">>

\* the arguments of a call; the last makes processGeneric throw
CallArgs ==
  {<<>>,
   << <<nameOf("q"), S1>> >>,
   << <<Flat(nameOf("params"), nameOf("lang")), S1>> >>,
   << <<nP, S1>>, <<Flat(nP, nC), S1>> >>}

UnknownName == <<"n", "o">>

\* what axios gives: a response with data, a response whose data is null, an
\* event stream, or an error with its message
Answers == {"json", "null", "stream", "ECONNREFUSED", "status 500"}

NoReply == [kind |-> "none", id |-> <<>>, message |-> <<>>]
Result(kind, tool) == [kind |-> kind, id |-> tool.name, message |-> <<>>]
Failure(message) == [kind |-> "error", id |-> <<>>, message |-> message]

NoCall == [phase |-> "none", name |-> <<>>, args |-> <<>>, requests |-> <<>>,
           answer |-> "none", reply |-> NoReply]

ServerInit ==
  /\ srvParser \in Parsers
  /\ srvEnv \in Environments
  /\ srvConfig \in
       {[openApiSpec |-> s, apiBaseUrl |-> ApiBaseUrl,
         headers |-> parseHeaders(h), defaults |-> parseEnvironmentDefaults(srvEnv)] :
          s \in SpecSources, h \in HeaderStrings}
  /\ srvPc = "constructed"
  /\ srvTools = <<>>
  /\ srvHandlers = FALSE
  /\ srvTransport = "none"
  /\ srvCall = NoCall
  /\ srvFailed = FALSE

\* start() up to the parser: path.resolve(process.cwd(), openApiSpec) throws
\* a TypeError unless openApiSpec is a string; then existsSync decides
Start ==
  /\ srvPc = "constructed"
  /\ srvPc' = IF srvConfig.openApiSpec.kind # "document" /\ srvConfig.openApiSpec.exists
              THEN "parsing" ELSE "failed"
  /\ UNCHANGED <<srvParser, srvEnv, srvConfig, srvTools, srvHandlers, srvTransport,
                 srvCall, srvFailed>>
  /\ UNCHANGED notServer

\* this.tools = await parseOpenAPISpec(openApiSpec): the file is read and
\* parsed, the document checked, the tools registered
ParseSpec ==
  /\ srvPc = "parsing"
  /\ LET openApiSpec == srvConfig.openApiSpec.doc
     IN IF /\ openApiSpec.kind # "malformed" /\ check(openApiSpec)
           /\ ~refisterToolThrows(srvParser, openApiSpec)
        THEN /\ srvTools' = refisterTool(srvParser, openApiSpec)
             /\ srvPc' = "parsed"
        ELSE /\ srvTools' = srvTools
             /\ srvPc' = "failed"
  /\ UNCHANGED <<srvParser, srvEnv, srvConfig, srvHandlers, srvTransport, srvCall, srvFailed>>
  /\ UNCHANGED notServer

\* this.initializeHandlers(); this.transport = new StdioServerTransport()
InitializeHandlers ==
  /\ srvPc = "parsed"
  /\ srvHandlers' = TRUE
  /\ srvTransport' = "created"
  /\ srvPc' = "connecting"
  /\ UNCHANGED <<srvParser, srvEnv, srvConfig, srvTools, srvCall, srvFailed>>
  /\ UNCHANGED notServer

\* Promise.race([server.connect(transport), the 30 s timeout])
Connect ==
  /\ srvPc = "connecting"
  /\ \E connected \in BOOLEAN :
       IF connected
       THEN srvTransport' = "connected" /\ srvPc' = "started"
       ELSE srvTransport' = srvTransport /\ srvPc' = "failed"
  /\ UNCHANGED <<srvParser, srvEnv, srvConfig, srvTools, srvHandlers, srvCall, srvFailed>>
  /\ UNCHANGED notServer

\* index.ts: main catches the error of start() and calls process.exit(1)
Exit ==
  /\ srvPc = "failed"
  /\ srvPc' = "exited"
  /\ UNCHANGED <<srvParser, srvEnv, srvConfig, srvTools, srvHandlers, srvTransport,
                 srvCall, srvFailed>>
  /\ UNCHANGED notServer

\* the CallTool handler up to `await axios(config)`, or to the error thrown
\* before it
CallTool ==
  /\ srvPc = "started"
  /\ srvCall.phase # "awaiting"
  /\ \E name \in toolNames(srvTools) \cup {UnknownName}, args \in CallArgs :
       LET call == [NoCall EXCEPT !.name = name, !.args = args]
           thrown(message) ==
             /\ srvCall' = [call EXCEPT !.phase = "replied", !.reply = Failure(message)]
             /\ srvFailed' = TRUE
       IN IF name \notin toolNames(srvTools)
          THEN thrown(toolNotFound(name))
          ELSE LET tool == mapGet(srvTools, name)
                   built == buidlConfig(tool, args, srvConfig.apiBaseUrl,
                                        srvConfig.headers, srvConfig.defaults)
               IN IF tool.metadata.method = <<>> \/ tool.metadata.originalPath = <<>>
                  THEN thrown(errorExecuting(name,
                                errorExecuting(tool.name, missingMetadata(tool))))
                  ELSE IF built.err
                  THEN thrown(errorExecuting(name,
                                errorExecuting(tool.name, <<Layer("TypeError", <<>>)>>)))
                  ELSE /\ srvCall' = [call EXCEPT !.phase = "awaiting",
                                                  !.requests = <<built.config>>]
                       /\ srvFailed' = srvFailed
  /\ UNCHANGED <<srvParser, srvEnv, srvConfig, srvPc, srvTools, srvHandlers, srvTransport>>
  /\ UNCHANGED notServer

\* the rest of executeToolCall and of the handler, once axios settled.
\* logResponse reads response.data.length, which throws on null inside the
\* inner try.
HttpAnswer ==
  /\ srvCall.phase = "awaiting"
  /\ \E answer \in Answers :
       LET tool == mapGet(srvTools, srvCall.name)
           thrown(requestError) ==
             Failure(errorExecuting(srvCall.name,
                       errorExecuting(tool.name, handleRequestError(tool, requestError))))
           reply == CASE answer = "json" -> Result("text", tool)
                      [] answer = "stream" -> Result("stream", tool)
                      [] answer = "null" -> thrown("TypeError")
                      [] OTHER -> thrown(answer)
       IN /\ srvCall' = [srvCall EXCEPT !.phase = "replied", !.answer = answer,
                                          !.reply = reply]
          /\ srvFailed' = (srvFailed \/ reply.kind = "error")
  /\ UNCHANGED <<srvParser, srvEnv, srvConfig, srvPc, srvTools, srvHandlers, srvTransport>>
  /\ UNCHANGED notServer

ServerNext ==
  Start \/ ParseSpec \/ InitializeHandlers \/ Connect \/ Exit \/ CallTool \/ HttpAnswer

ServerIdle ==
  /\ srvParser = "openapi-parser.ts"
  /\ srvEnv = <<>>
  /\ srvConfig = [openApiSpec |-> SpecSource("path", FALSE, MalformedDoc),
                  apiBaseUrl |-> ApiBaseUrl, headers |-> <<>>, defaults |-> EmptyObj]
  /\ srvPc = "constructed" /\ srvTools = <<>> /\ srvHandlers = FALSE
  /\ srvTransport = "none" /\ srvCall = NoCall /\ srvFailed = FALSE

(***************************************************************************)
(* The specifications: one component runs, the others stay idle.           *)
(***************************************************************************)
InitBody == BodyInit /\ LoadIdle /\ DeriveIdle /\ SSEIdle /\ ServerIdle
SpecBody == InitBody /\ [][BodyNext]_vars

InitLoad == LoadInit /\ BodyIdle /\ DeriveIdle /\ SSEIdle /\ ServerIdle
SpecLoad == InitLoad /\ [][LoadNext]_vars

InitDerive == DeriveInit /\ BodyIdle /\ LoadIdle /\ SSEIdle /\ ServerIdle
SpecDerive == InitDerive /\ [][DeriveNext]_vars

InitSSE == SSEInit /\ BodyIdle /\ LoadIdle /\ DeriveIdle /\ ServerIdle
SpecSSE == InitSSE /\ [][SSENext]_vars

InitRace == RaceInit /\ BodyIdle /\ DeriveIdle /\ SSEIdle /\ ServerIdle
SpecRace == InitRace /\ [][RaceNext]_vars

InitServer == ServerInit /\ BodyIdle /\ LoadIdle /\ DeriveIdle /\ SSEIdle
SpecServer == InitServer /\ [][ServerNext]_vars

(***************************************************************************)
(* Claims about the loader and the cache.                                  *)
(***************************************************************************)
UrlLoads == {p \in ProcIds : load[p].pc # "off" /\ load[p].source = "url"}
Started(p) == load[p].pc \notin {"off", "start"}

C6_EntryOnlyWhileYoungerThanTtl ==
  \A p \in UrlLoads :
    load[p].cached.present =>
      load[p].read.at - load[p].cached.timestamp < CACHE_TTL

\* C6 amended: get returns the entry of the file exactly while
\* now - timestamp <= TTL (3 600 000 ms; the entry is still valid when its age
\* equals the TTL) unless reading fails; an entry older than the TTL is a miss
\* although its file is still there, and then no If-None-Match header is sent.
C6_EntryWhileNotOlderThanTtl ==
  \A p \in UrlLoads :
    Started(p) =>
      LET r == load[p].read
          age == r.at - r.file.entry.timestamp
      IN /\ load[p].cached.present <=>
              (r.file.state = "entry" /\ ~r.fault /\ age <= 3600000)
         /\ load[p].cached.present => load[p].cached = r.file.entry
         /\ (r.file.state = "entry" /\ age > 3600000) =>
              /\ ~load[p].cached.present
              /\ \A k \in 1..Len(load[p].headers) : load[p].headers[k] = NoEtag

\* an expired entry, its file still on disk, and a GET sent without the header
C6_Witness ==
  \E p \in UrlLoads :
    /\ load[p].read.file.state = "entry"
    /\ load[p].read.at - load[p].read.file.entry.timestamp = CACHE_TTL + 1
    /\ cacheFile = load[p].read.file
    /\ load[p].headers = <<NoEtag>>

\* C7: at most 3 GETs, one after another; every error other than
\* "not modified" is followed by the next attempt after 1 s (first failure) and 2 s
\* (second failure); the third failure fails the load with a fetch failure and
\* no further request is made.
C7_ThreeSequentialAttemptsWithBackoff ==
  \A p \in UrlLoads :
    LET l == load[p]
        sent == Len(l.sentAt)
        failed == Len(l.failedAt)
    IN /\ sent <= 3
       /\ sent - failed \in {0, 1}
       /\ l.pc = "waiting" => sent = failed + 1
       /\ l.pc \in {"backoff", "request", "failed"} => sent = failed
       /\ Len(l.delays) = Min(failed, 2)
       /\ \A k \in 1..Len(l.delays) : l.delays[k] = IF k = 1 THEN 1000 ELSE 2000
       /\ \A k \in 2..sent : l.sentAt[k] >= l.failedAt[k - 1] + l.delays[k - 1]
       /\ (failed < 3 /\ l.lastAnswer \in {"httpError", "networkError", "emptyBody", "unparsable"}) =>
            l.pc \in {"backoff", "request", "waiting"}
       /\ failed = 3 =>
            (l.pc = "failed" /\ l.result = Thrown("fetchFailure") /\ sent = 3)
       /\ l.result = Thrown("fetchFailure") => failed = 3

\* three failed attempts, 1 s and 2 s slept between them
C7_Witness ==
  \E p \in UrlLoads :
    /\ Len(load[p].failedAt) = 3
    /\ load[p].delays = <<1000, 2000>>
    /\ load[p].sentAt[3] - load[p].sentAt[1] = 3000
    /\ load[p].lastAnswer = "unparsable"
    /\ load[p].pc = "failed"

(***************************************************************************)
(* Claims about the derived registry.                                      *)
(***************************************************************************)
\* the path item the loop handled last, once it handled one
HandledOperation ==
  /\ dIndex > 1
  /\ dSpec.paths[dIndex - 1].kind = "item"
  /\ dSpec.paths[dIndex - 1].others = <<>>
LastOperation == dSpec.paths[dIndex - 1].operation
LastMethod == dSpec.paths[dIndex - 1].method

\* the pieces of a string between `|`, blanks around each piece removed
Segments(text) ==
  LET pieces == split(text, <<"|">>)
  IN [i \in 1..Len(pieces) |-> trimEnd(trimStart(pieces[i]))]

\* C3 as stated: an operation whose summary has s segments and whose
\* description has d segments yields exactly max(s, d) tools in the registry,
\* tool i named by summary segment i mod s and described by description
\* segment i mod d.
C3_ExactlyMaxTools ==
  (dParser = "part_000" /\ dIndex = 2 /\ HandledOperation) =>
    LET S == Segments(LastOperation.summary)
        D == Segments(LastOperation.description)
    IN /\ Len(dTools) = Max(Len(S), Len(D))
       /\ \A i \in 0..(Len(dTools) - 1) :
            /\ dTools[i + 1].name = S[(i % Len(S)) + 1]
            /\ dTools[i + 1].description = D[(i % Len(D)) + 1]

\* C3 amended: the operation yields a list of exactly N = max(s, d) tools; tool
\* i is named by the trimmed summary segment i mod s, or `method path` when
\* that segment is empty, and described by the trimmed description segment
\* i mod d, or its name when that segment is empty; all N share one input schema
\* and metadata.  The registry is keyed by name, so it holds one tool per
\* distinct name among the N, the last one made with that name: exactly N tools
\* only when the N names differ from each other and from the names registered
\* before.
C3_MaxToolsOnePerName ==
  (dParser = "part_000" /\ HandledOperation) =>
    LET S == Segments(LastOperation.summary)
        D == Segments(LastOperation.description)
        N == Max(Len(S), Len(D))
        named(i) == IF S[(i % Len(S)) + 1] # <<>> THEN S[(i % Len(S)) + 1]
                    ELSE LastMethod \o <<" ">> \o pathOf(dIndex - 1)
        described(i) == IF D[(i % Len(D)) + 1] # <<>> THEN D[(i % Len(D)) + 1]
                        ELSE named(i)
        lastNamed(name) ==
          CHOOSE i \in 0..(N - 1) :
            named(i) = name /\ \A j \in (i + 1)..(N - 1) : named(j) # name
    IN /\ Len(dNewTools) = N
       /\ \A i \in 0..(N - 1) :
            /\ dNewTools[i + 1].name = named(i)
            /\ dNewTools[i + 1].description = described(i)
            /\ dNewTools[i + 1].inputSchema = dNewTools[1].inputSchema
            /\ dNewTools[i + 1].metadata = dNewTools[1].metadata
            /\ named(i) \in toolNames(dTools)
            /\ mapGet(dTools, named(i)) = dNewTools[lastNamed(named(i)) + 1]
       /\ \A i, j \in 1..Len(dTools) : dTools[i].name = dTools[j].name => i = j
       /\ dIndex = 2 => Len(dTools) = Cardinality({named(i) : i \in 0..(N - 1)})

\* summary "A|B|C" with description "dA|dB": three tools, the third described
\* by dA; and an operation whose two tools share the name A is in the registry
\* once
C3_Witness ==
  /\ dParser = "part_000" /\ dPc = "done" /\ Len(dSpec.paths) = 2
  /\ dSpec.paths[1].operation.summary = <<"A">>
  /\ dSpec.paths[1].operation.description = <<"d", "A", "|", "d", "B">>
  /\ dSpec.paths[2].operation.summary = <<"A", "|", "B", "|", "C">>
  /\ Len(dNewTools) = 3
  /\ dNewTools[3].name = <<"C">>
  /\ dNewTools[3].description = <<"d", "A">>
  /\ Len(dTools) = 3

\* C10: no tool of the registry has an input schema with an empty
\* `properties` object or an empty `required` list.
C10_NoEmptyConstraint ==
  \A i \in 1..Len(dTools) :
    /\ dTools[i].inputSchema.hasProps => Len(dTools[i].inputSchema.props) > 0
    /\ dTools[i].inputSchema.hasReq => Len(dTools[i].inputSchema.req) > 0

(***************************************************************************)
(* Claims about the aggregation of a streamed body.                        *)
(***************************************************************************)
\* a chunk the loop does not skip: it is not white space only
Kept(chunk) == \E i \in 1..Len(chunk) : chunk[i] \notin Whitespace

\* the chunk without a leading data: prefix
Unframed(chunk) ==
  IF Len(chunk) >= 5 /\ SubSeq(chunk, 1, 5) = DataPrefix
  THEN SubSeq(chunk, 6, Len(chunk)) ELSE chunk

\* the chunk without the white space at its two ends
Trimmed(chunk) ==
  LET inked == {i \in 1..Len(chunk) : chunk[i] \notin Whitespace}
  IN IF inked = {} THEN <<>>
     ELSE SubSeq(chunk, CHOOSE i \in inked : \A j \in inked : i <= j,
                        CHOOSE i \in inked : \A j \in inked : j <= i)

StrippedAndTrimmed(chunk) == Trimmed(Unframed(chunk))
StrippedOrVerbatim(chunk) ==
  IF Unframed(chunk) # chunk THEN Trimmed(Unframed(chunk)) ELSE chunk

\* the kept chunks among the first n, each turned into a block: trimmed in
\* every case, or only when a prefix was stripped
RECURSIVE BlocksOf(_, _, _)
BlocksOf(chunks, n, always) ==
  IF n = 0 THEN <<>>
  ELSE IF Kept(chunks[n])
  THEN Append(BlocksOf(chunks, n - 1, always),
              TextBlock(IF always THEN StrippedAndTrimmed(chunks[n])
                        ELSE StrippedOrVerbatim(chunks[n])))
  ELSE BlocksOf(chunks, n - 1, always)

\* C8 as stated: the blocks of the result are the non-empty selected chunks in
\* order, each with a leading data: prefix stripped and white space trimmed,
\* and the result is produced once, after the whole sequence.
C8_EveryChunkStrippedAndTrimmed ==
  (sPc = "settled" /\ sFaults = {}) =>
    /\ sResult.settled = 1
    /\ sResult.content = BlocksOf(sChunks, Len(sChunks), TRUE)

\* C8 amended: the blocks of the result are, in order and one for one, the
\* selected chunks that are not white space only; a chunk that begins with
\* data: has that prefix stripped and the rest trimmed (which may leave an empty
\* block), every other chunk is kept as it is, untrimmed; nothing is settled
\* while the loop runs and the result is produced once, after the last chunk.
\* All of it is about a stream whose chunks are processed without a throw.
C8_EveryChunkKeptInOrder ==
  /\ (sPc = "forEach" /\ sFaults = {}) =>
       /\ sResult.settled = 0
       /\ contentArray = BlocksOf(sChunks, sIndex - 1, FALSE)
  /\ (sPc = "settled" /\ sFaults = {}) =>
       /\ sResult.settled = 1
       /\ sIndex = Len(sChunks) + 1
       /\ sResult.role = "assistant"
       /\ sResult.content = BlocksOf(sChunks, Len(sChunks), FALSE)
       /\ Len(sResult.content) = Cardinality({i \in 1..Len(sChunks) : Kept(sChunks[i])})

\* two text fields, Hi and blank-W, aggregated to the blocks Hi and blank-W
C8_Witness ==
  /\ sPc = "settled"
  /\ sChunks = << <<"H", "i">>, <<" ", "W">> >>
  /\ sResult.content = <<TextBlock(<<"H", "i">>), TextBlock(<<" ", "W">>)>>

\* the values of the fields `key` of a body, as JSON writes them: a value ends
\* at the first quote that no backslash escapes
RECURSIVE ValueEnd(_, _)
ValueEnd(body, p) ==
  IF p > Len(body) THEN 0
  ELSE IF body[p] = "\\" THEN ValueEnd(body, p + 2)
  ELSE IF body[p] = QUOTE THEN p
  ELSE ValueEnd(body, p + 1)

RECURSIVE FieldValues(_, _, _)
FieldValues(body, key, p) ==
  IF p > Len(body) THEN <<>>
  ELSE LET open == afterSpaces(body, p + Len(key))
           close == IF open <= Len(body) /\ body[open] = QUOTE
                    THEN ValueEnd(body, open + 1) ELSE 0
       IN IF standsAt(body, key, p) /\ close > 0
          THEN <<SubSeq(body, open + 1, close - 1)>> \o FieldValues(body, key, close + 1)
          ELSE FieldValues(body, key, p + 1)

ContentKey == <<QUOTE, "c", "o", "n", "t", "e", "n", "t", QUOTE, ":">>

\* C9: the chunks are the values of the text fields if the body has any, else
\* the values of its content fields if it has any, else the segments of the
\* body between blank lines; a lower source is never used when a higher one
\* matched.
C9_ChunkSelectionPriority ==
  sPc # "idle" =>
    sChunks = IF FieldValues(sStream, TextKey, 1) # <<>>
              THEN FieldValues(sStream, TextKey, 1)
              ELSE IF FieldValues(sStream, ContentKey, 1) # <<>>
              THEN FieldValues(sStream, ContentKey, 1)
              ELSE split(trim(sStream), <<"\n", "\n">>)

(***************************************************************************)
(* Claims about the request body in the derived tools.                     *)
(***************************************************************************)
\* the operation handled last has a request body whose first content type
\* has a schema that is not a reference
HasBodySchema ==
  /\ HandledOperation
  /\ LastOperation.requestBody.kind = "content"
  /\ Len(LastOperation.requestBody.schemas) > 0
  /\ LastOperation.requestBody.schemas[1].kind = "node"
LastBodySchema == LastOperation.requestBody.schemas[1]

\* the properties a schema declares, and those of them that are no $ref
Declared(S) == IF S.hasProps THEN {S.props[i][1] : i \in 1..Len(S.props)} ELSE {}
DeclaredPlain(S) ==
  IF S.hasProps
  THEN {S.props[i][1] : i \in {j \in 1..Len(S.props) : S.props[j][2].kind # "ref"}}
  ELSE {}
Required(S) == IF S.hasReq THEN {S.req[i] : i \in 1..Len(S.req)} ELSE {}
RequiredParams(operation) ==
  IF operation.hasParams
  THEN {operation.parameters[i].name :
          i \in {j \in 1..Len(operation.parameters) :
                   ~operation.parameters[j].ref /\ operation.parameters[j].required}}
  ELSE {}

\* C11 as stated: every tool of an operation with body schema S has each
\* top-level property of S verbatim in its input schema, lists as required
\* what S requires, retains S in its metadata, and the variants share input
\* schema and metadata.
C11_BodyPropertiesVerbatim ==
  (dParser = "part_000" /\ HasBodySchema) =>
    \A k \in 1..Len(dNewTools) :
      LET in == dNewTools[k].inputSchema
      IN /\ \A name \in Declared(LastBodySchema) :
              /\ name \in Declared(in)
              /\ propOf(in.props, name) = propOf(LastBodySchema.props, name)
         /\ Required(LastBodySchema) \subseteq Required(in)
         /\ dNewTools[k].metadata.requestBodySchema = LastBodySchema
         /\ in = dNewTools[1].inputSchema
         /\ dNewTools[k].metadata = dNewTools[1].metadata

\* C11 amended: every tool of an operation with body schema S has each
\* top-level property of S that is not a $ref verbatim in its input schema
\* (sub-structure and `items` kept; it replaces a parameter of the same name);
\* a $ref property is left out.  Of the names S requires, the input schema
\* lists those S declares as non-reference properties (besides the required
\* parameters) and no other.  metadata.requestBodySchema is S, and the variants
\* share input schema and metadata.
C11_PlainBodyPropertiesVerbatim ==
  (dParser = "part_000" /\ HasBodySchema) =>
    \A k \in 1..Len(dNewTools) :
      LET in == dNewTools[k].inputSchema
          S == LastBodySchema
      IN /\ \A name \in DeclaredPlain(S) :
              /\ name \in Declared(in)
              /\ propOf(in.props, name) = propOf(S.props, name)
         /\ \A name \in Declared(S) \ DeclaredPlain(S) :
              name \in Declared(in) =>
                \E i \in 1..Len(LastOperation.parameters) :
                  LastOperation.parameters[i].name = name
         /\ Required(in) =
              (Required(S) \cap DeclaredPlain(S)) \cup RequiredParams(LastOperation)
         /\ dNewTools[k].metadata.requestBodySchema = S
         /\ dNewTools[k].metadata.method = toUpperCase(LastMethod)
         /\ in = dNewTools[1].inputSchema
         /\ dNewTools[k].metadata = dNewTools[1].metadata

\* two variants over the body whose array property has `items`: both carry it
C11_Witness ==
  /\ dParser = "part_000" /\ HasBodySchema
  /\ Len(dNewTools) = 2
  /\ dNewTools[1].name # dNewTools[2].name
  /\ propOf(dNewTools[2].inputSchema.props, "messages").items = "object"
  /\ dNewTools[2].metadata.requestBodySchema = ItemsSchema

(***************************************************************************)
(* Claims about the registry.                                              *)
(***************************************************************************)
\* the calls of tools.set that registered `name`
RegisteredAt(name) == {k \in 1..Len(dLog) : dLog[k].name = name}
FirstOf(calls) == CHOOSE k \in calls : \A h \in calls : k <= h
LastOf(calls) == CHOOSE k \in calls : \A h \in calls : h <= k

\* C12: the registry holds one tool per distinct name registered, each name
\* with the tool registered last under it, in the order in which the names
\* were first registered; the list operation returns exactly these tools.
C12_LastRegisteredWins ==
  /\ \A i, j \in 1..Len(dTools) : dTools[i].name = dTools[j].name => i = j
  /\ {dTools[i].name : i \in 1..Len(dTools)} = {dLog[k].name : k \in 1..Len(dLog)}
  /\ \A i \in 1..Len(dTools) :
       dTools[i] = dLog[LastOf(RegisteredAt(dTools[i].name))]
  /\ \A i, j \in 1..Len(dTools) :
       i < j => FirstOf(RegisteredAt(dTools[i].name)) < FirstOf(RegisteredAt(dTools[j].name))
  /\ dListed.answered => (dPc = "done" /\ dListed.tools = dTools)

\* five registrations under three names, the first name registered three
\* times: it keeps its place, holds the tool registered last, and is listed
C12_Witness ==
  /\ dListed.answered
  /\ Len(dLog) = 5
  /\ Len(dListed.tools) = 3
  /\ Cardinality(RegisteredAt(dListed.tools[1].name)) = 3
  /\ dListed.tools[1] = dLog[5]
  /\ dListed.tools[1] # dLog[1]

(***************************************************************************)
(* Claims about starting the server.                                       *)
(***************************************************************************)
\* the document the configured source denotes can be loaded and is valid
Loadable(source) ==
  /\ source.kind = "path" => source.exists
  /\ source.doc.kind = "doc"

\* start() has loaded the document and registered its tools
Registered ==
  /\ srvPc \in {"parsed", "connecting", "started"}
  /\ srvTools = refisterTool(srvParser, srvConfig.openApiSpec.doc)

\* C13: whatever the kind of the source (a file path, an http(s) URL, a
\* document in memory), a start from a source whose document can be loaded
\* registers the tools of that document: it does not fail before the
\* handlers are set up.
C13_StartsFromAnySource ==
  (Loadable(srvConfig.openApiSpec) /\ srvPc = "failed") => srvHandlers

\* C14: start-up fails fast.  When the document cannot be loaded, or is
\* null, or has no paths, start() never gets past the parser: it ends as a
\* failure, the request handlers are never registered and the transport is
\* never created or connected.  Whenever the handlers are registered or the
\* transport exists, the registry holds the tools derived from a valid
\* document.
C14_FailFastStart ==
  /\ ~Loadable(srvConfig.openApiSpec) =>
       /\ srvPc \in {"constructed", "parsing", "failed", "exited"}
       /\ ~srvHandlers
       /\ srvTransport = "none"
  /\ (srvHandlers \/ srvTransport # "none") =>
       /\ Loadable(srvConfig.openApiSpec)
       /\ srvTools = refisterTool(srvParser, srvConfig.openApiSpec.doc)

\* the file is there, the document in it has no paths, and start() failed
C14_Witness ==
  /\ srvPc = "exited"
  /\ srvConfig.openApiSpec.kind = "path"
  /\ srvConfig.openApiSpec.exists
  /\ srvConfig.openApiSpec.doc.kind = "nopaths"
  /\ ~srvHandlers

(***************************************************************************)
(* Claims about tool calls.                                                *)
(***************************************************************************)
\* the call handled last has ended in an error
CallFailed == srvCall.phase = "replied" /\ srvCall.reply.kind = "error"

\* the tool the call names, when the registry has it
CalledTool == mapGet(srvTools, srvCall.name)
Known == srvCall.name \in toolNames(srvTools)
LacksMetadata ==
  CalledTool.metadata.method = <<>> \/ CalledTool.metadata.originalPath = <<>>

\* what made the call fail
CauseOfFailure ==
  IF ~Known THEN "Tool not found"
  ELSE IF LacksMetadata THEN "is missing metadata or method or originalPath"
  ELSE IF srvCall.requests = <<>> THEN "TypeError"
  ELSE IF srvCall.answer = "null" THEN "TypeError"
  ELSE srvCall.answer

FailureLeavesServerServing ==
  /\ [][srvFailed' => UNCHANGED <<srvPc, srvTools, srvHandlers, srvTransport,
                                  srvConfig>>]_vars
  /\ [](srvFailed => srvPc = "started")

\* the call handled last got as far as the HTTP request
Executed == srvCall.phase \in {"awaiting", "replied"} /\ srvCall.requests # <<>>

\* the call handled last names a tool with method and path, and its body
\* could be built
Executable ==
  /\ srvCall.phase \in {"awaiting", "replied"}
  /\ Known
  /\ ~LacksMetadata
  /\ ~buildRequestBody(srvCall.args,
                       retainedSchema(CalledTool.metadata.requestBodySchema),
                       srvConfig.defaults).err

QueryMethods == {<<"G", "E", "T">>, <<"D", "E", "L", "E", "T", "E">>}

\* C16: a tool call that is executed issues exactly one HTTP request, and no
\* call issues more than one.  The request has the tool's method, the URL
\* apiBaseUrl followed by the tool's originalPath, and the configured
\* headers.  For GET and DELETE it carries the call's arguments as query
\* parameters and no body; for any other method it carries the body
\* reconstructed from the arguments and no query parameters.  (A call that
\* fails before the request, see C15, issues none.)
C16_OneRequestAsConfigured ==
  /\ Len(srvCall.requests) <= 1
  /\ Executable => Executed
  /\ Executed =>
       LET request == srvCall.requests[1]
           metadata == CalledTool.metadata
       IN /\ Len(srvCall.requests) = 1
          /\ request.method = metadata.method
          /\ request.url = srvConfig.apiBaseUrl \o metadata.originalPath
          /\ request.headers = srvConfig.headers
          /\ IF metadata.method \in QueryMethods
             THEN /\ request.hasParams /\ request.params = srvCall.args
                  /\ ~request.hasData
             ELSE /\ request.hasData
                  /\ request.data =
                       buildRequestBody(srvCall.args,
                                        retainedSchema(metadata.requestBodySchema),
                                        srvConfig.defaults).body
                  /\ ~request.hasParams

\* a DELETE call with arguments has been answered
C16_Witness ==
  /\ Executed
  /\ srvCall.phase = "replied"
  /\ CalledTool.metadata.method = <<"D", "E", "L", "E", "T", "E">>
  /\ srvCall.args # <<>>
  /\ Len(srvConfig.headers) > 1

(***************************************************************************)
(* Claims about the environment defaults.                                  *)
(***************************************************************************)
\* the request of the call handled last carries a body
SentBody == Executed /\ srvCall.requests[1].hasData

\* the body has `parent` as an object whose `child` is the string `text`
Nested(body, parent, child, text) ==
  /\ Has(body, parent)
  /\ body[parent].k = "obj"
  /\ Has(body[parent].f, child)
  /\ body[parent].f[child] = Str(text)

\* process.env has the variable DEFAULT_<name> with this value
IsSet(name, value) ==
  \E i \in 1..Len(srvEnv) : srvEnv[i] = <<DefaultPrefix \o name, value>>

SetsSourceLang ==
  \/ IsSet(<<"PARAMS", "_", "SOURCE", "_", "LANG">>, English)
  \/ IsSet(<<"PARAMS">>, SourceLangJSON)

SetsServiceId == IsSet(<<"SERVICE", "_", "ID">>, EnvValue("svc", <<>>))

\* C17: DEFAULT_PARAMS_SOURCE_LANG=English and
\* DEFAULT_PARAMS={"source_lang":"English"} have the same effect: a body
\* built from arguments that do not give params.source_lang has
\* params.source_lang = English; likewise DEFAULT_SERVICE_ID=svc gives the
\* body service_id = svc.
C17_EquivalentDefaultFormats ==
  SentBody =>
    LET body == srvCall.requests[1].data
    IN /\ SetsSourceLang =>
            Nested(body, <<"params">>, <<"source", "_", "lang">>, "English")
       /\ SetsServiceId =>
            /\ Has(body, <<"service", "_", "id">>)
            /\ body[<<"service", "_", "id">>] = Str("svc")

\* what the two formats give instead: a top-level PARAMS_SOURCE_LANG, and
\* an object PARAMS; a lower-case DEFAULT_params does give params.source_lang
UpperCaseKeysInBody ==
  SentBody =>
    LET body == srvCall.requests[1].data
        given == Nested(body, <<"params">>, <<"source", "_", "lang">>, "English")
    IN /\ IsSet(<<"PARAMS", "_", "SOURCE", "_", "LANG">>, English) =>
            /\ body[<<"PARAMS", "_", "SOURCE", "_", "LANG">>] = Str("English")
            /\ ~given
       /\ IsSet(<<"PARAMS">>, SourceLangJSON) =>
            /\ Nested(body, <<"PARAMS">>, <<"source", "_", "lang">>, "English")
            /\ ~given
       /\ IsSet(<<"params">>, SourceLangJSON) => given

(***************************************************************************)
(* Claims about cache faults and concurrent loads.                         *)
(***************************************************************************)
\* getCachedSpec of this load met a fault: mkdir or readFile failed, the
\* file is missing, or what it holds does not parse
MetCacheFault(l) ==
  /\ l.source = "url"
  /\ l.pc \notin {"off", "start"}
  /\ l.read.fault \/ l.read.file.state # "entry"

\* the fetch of this load succeeded and the load has ended
FetchedAndEnded(l) ==
  /\ l.source = "url"
  /\ l.lastAnswer = "ok"
  /\ l.pc \in {"done", "failed"}

\* C18: a cache fault never makes a load fail.  A load whose cache read met
\* a fault has no cached entry and goes on to fetch: it ends only after a
\* GET was sent, and it fails only when every attempt of the fetch failed.
\* A load whose fetch succeeded returns the fetched document, whether or
\* not the entry could be stored.
C18_CacheFaultsNeverFailLoad ==
  \A p \in ProcIds :
    LET l == load[p]
    IN /\ MetCacheFault(l) =>
            /\ l.cached = NoEntry
            /\ l.pc \in {"done", "failed"} => Len(l.sentAt) >= 1
            /\ l.result.kind = "error" =>
                 /\ l.result.error = "fetchFailure"
                 /\ Len(l.failedAt) = maxRetries
       /\ FetchedAndEnded(l) =>
            /\ l.pc = "done"
            /\ l.result = Returned(l.fetched.content)

\* the cache file was corrupt, the fetch succeeded, the entry was not stored
C18_Witness ==
  /\ MetCacheFault(load[1])
  /\ load[1].read.file.state = "corrupt"
  /\ FetchedAndEnded(load[1])
  /\ cacheFile.state # "entry"

\* both loads have ended, and both wrote their entry
BothStored == \A p \in ProcIds : load[p].pc = "done" /\ load[p].stored

\* C19: two loads of one url that both missed the cache, fetched and wrote:
\* each returns the document it fetched itself, and when both have ended
\* the cache file holds one complete entry, that of the write that came
\* last, never a mixture of the two.
C19_LastWriteWinsWhole ==
  /\ \A p \in ProcIds :
       load[p].pc = "done" => load[p].result = Returned(load[p].fetched.content)
  /\ BothStored =>
       /\ cacheFile.state = "entry"
       /\ \E p \in ProcIds : cacheFile.entry = load[p].fetched

\* what holds instead: every load returns what it fetched, and the file
\* holds the whole entry written last unless a longer one was written
\* before it through another descriptor; then the end of the longer one
\* stays behind the shorter
RaceLeavesEntryOrMixture ==
  /\ \A p \in ProcIds :
       load[p].pc = "done" => load[p].result = Returned(load[p].fetched.content)
  /\ BothStored =>
       /\ cacheFile.state \in {"entry", "mixed"}
       /\ \E p \in ProcIds : cacheFile.entry = load[p].fetched
       /\ cacheFile.state = "mixed" =>
            \E p, q \in ProcIds :
              /\ cacheFile.entry = load[p].fetched
              /\ lengthOf(load[q].fetched) > lengthOf(load[p].fetched)


(***************************************************************************)
(* C20: a chunk whose processing throws.                                   *)
(***************************************************************************)

\* the chunk that threw first
FirstFault == CHOOSE i \in sFaults : \A j \in sFaults : i <= j

\* C20: once the processing of a chunk has thrown, the promise is settled, once
\* and for good, as a rejection that carries the message of the error thrown
\* first; neither the later chunks nor the resolve after the loop change that,
\* and no list of blocks, of the chunks before or after, is returned.
C20_FaultRejectsWhole ==
  sFaults # {} =>
    /\ sResult.settled = 1
    /\ sResult.error = McpError(messageOf(FirstFault))
    /\ sResult.role = "none"
    /\ sResult.content = <<>>

\* three chunks of which the second threw: the loop went on, pushed the blocks
\* of the first and the third, resolve was called, and the promise is rejected
C20_Witness ==
  /\ sPc = "settled"
  /\ Len(sChunks) = 3
  /\ sFaults = {2}
  /\ Len(contentArray) = 2
  /\ sResult = Rejected(McpError(messageOf(2)))


(***************************************************************************)
(* Claims about the reconstruction of the body from the arguments.         *)
(***************************************************************************)

\* the properties a retained schema declares as objects with nested properties
ObjectProps(tool) ==
  IF tool.none \/ ~tool.hasProps THEN {}
  ELSE {i \in 1..Len(tool.properties) :
          tool.properties[i][2].type = "object" /\ tool.properties[i][2].hasProps}

\* args[parent][child] is there to fall back on
NestedGiven(args, parent, child) ==
  /\ ArgHas(args, parent)
  /\ IsObj(ArgGet(args, parent))
  /\ Has(ArgGet(args, parent).f, child)

\* C21: under a retained schema, for every property parent declared as an
\* object with nested properties and every nested property child it declares,
\* the reconstructed body holds at [parent][child] the value of the flattened
\* argument parent_child when that is given, else the value of
\* args[parent][child] when that is given, else nothing; with both given the
\* flattened one wins.
C21_FlattenedThenNested ==
  (bPc = "built" /\ ~bTool.none) =>
    \A i \in ObjectProps(bTool) :
      \A j \in 1..Len(bTool.properties[i][2].properties) :
        LET parent == bTool.properties[i][1]
            child == bTool.properties[i][2].properties[j]
            body == bRebuilt.body
        IN /\ ~bRebuilt.err
           /\ Has(body, parent)
           /\ IsObj(body[parent])
           /\ IF ArgHas(bArgs, Flat(parent, child))
              THEN /\ Has(body[parent].f, child)
                   /\ body[parent].f[child] = ArgGet(bArgs, Flat(parent, child))
              ELSE IF NestedGiven(bArgs, parent, child)
              THEN /\ Has(body[parent].f, child)
                   /\ body[parent].f[child] = ArgGet(bArgs, parent).f[child]
              ELSE ~Has(body[parent].f, child)

\* p.c given as p_c = 3 and as p = {c: 1} under a schema that declares p.c:
\* the body holds p.c = 3
C21_Witness ==
  /\ bPc = "built"
  /\ ObjectProps(bTool) # {}
  /\ ArgHas(bArgs, Flat(nP, nC)) /\ ArgGet(bArgs, Flat(nP, nC)) = S3
  /\ NestedGiven(bArgs, nP, nC) /\ ArgGet(bArgs, nP).f[nC] = S1
  /\ bRebuilt.body[nP].f[nC] = S3


\* a key up to its first underscore, and all that follows that underscore
firstUnderscore(key) ==
  CHOOSE i \in 1..Len(key) : key[i] = "_" /\ \A h \in 1..(i - 1) : key[h] # "_"
parentOf(key) == SubSeq(key, 1, firstUnderscore(key) - 1)
remainderOf(key) == SubSeq(key, firstUnderscore(key) + 1, Len(key))

\* some argument is named as the parent of a flattened one
Collides(args) ==
  \E i, j \in 1..Len(args) :
    includesUnderscore(args[i][1]) /\ args[j][1] = parentOf(args[i][1])

\* the value of the i-th argument sits in the body where its key says
StoredByKey(args, i, body) ==
  LET key == args[i][1]
      value == args[i][2]
  IN IF includesUnderscore(key)
     THEN /\ Has(body, parentOf(key))
          /\ IsObj(body[parentOf(key)])
          /\ Has(body[parentOf(key)].f, remainderOf(key))
          /\ body[parentOf(key)].f[remainderOf(key)] = value
     ELSE Has(body, key) /\ body[key] = value

\* C22: without a retained schema, every argument whose key holds an
\* underscore is stored at [parent][child], parent being the key up to its
\* first underscore and child all of the key after it, further underscores
\* included; every other argument is copied to the top level; no part of a key
\* is dropped.  (Arguments of which one names the parent of another are the
\* subject of C23 and are left out here.)
C22_SplitAtFirstUnderscore ==
  (bPc = "built" /\ bTool.none /\ ~Collides(bArgs)) =>
    /\ ~bRebuilt.err
    /\ \A i \in 1..Len(bArgs) : StoredByKey(bArgs, i, bRebuilt.body)

\* the same for arguments whose keys hold at most one underscore each
OneUnderscoreKeysStored ==
  (/\ bPc = "built" /\ bTool.none /\ ~Collides(bArgs)
   /\ \A i \in 1..Len(bArgs) : Len(splitAll(bArgs[i][1])) <= 2) =>
    /\ ~bRebuilt.err
    /\ \A i \in 1..Len(bArgs) : StoredByKey(bArgs, i, bRebuilt.body)


\* the arguments hold the scalar args[si] and, flattened under its name, args[fi]
ScalarAndFlattened(args, si, fi) ==
  /\ args[si][2].k = "str"
  /\ includesUnderscore(args[fi][1])
  /\ parentOf(args[fi][1]) = args[si][1]

\* C23: with a scalar argument parent and a flattened argument parent_child
\* both given, reconstruction without a retained schema does not fail, and the
\* body's parent is what was written last in the order of the arguments: the
\* scalar when parent comes after parent_child, an object holding child when
\* parent_child comes after parent.
C23_CollisionLastWriteWins ==
  (bPc = "built" /\ bTool.none) =>
    \A si, fi \in 1..Len(bArgs) :
      (ScalarAndFlattened(bArgs, si, fi) /\ Len(bArgs) = 2) =>
        /\ ~bRebuilt.err
        /\ Has(bRebuilt.body, bArgs[si][1])
        /\ IF si > fi
           THEN bRebuilt.body[bArgs[si][1]] = bArgs[si][2]
           ELSE /\ IsObj(bRebuilt.body[bArgs[si][1]])
                /\ Has(bRebuilt.body[bArgs[si][1]].f, splitLimit(bArgs[fi][1], 2)[2])
                /\ bRebuilt.body[bArgs[si][1]].f[splitLimit(bArgs[fi][1], 2)[2]] = bArgs[fi][2]

\* the half of it that holds: the scalar given last is the body's parent
ScalarGivenLastWins ==
  (bPc = "built" /\ bTool.none) =>
    \A si, fi \in 1..Len(bArgs) :
      (ScalarAndFlattened(bArgs, si, fi) /\ Len(bArgs) = 2 /\ si > fi) =>
        /\ ~bRebuilt.err
        /\ bRebuilt.body[bArgs[si][1]] = bArgs[si][2]

\* the other half: the flattened key given after a non-empty scalar throws
FlattenedAfterScalarThrows ==
  (bPc = "built" /\ bTool.none) =>
    \A si, fi \in 1..Len(bArgs) :
      (ScalarAndFlattened(bArgs, si, fi) /\ si < fi /\ Truthy(bArgs[si][2])) =>
        bRebuilt.err /\ bBody.err


(***************************************************************************)
(* Claims about which entries of a path item become tools.                 *)
(***************************************************************************)

\* the keys of a path item that name an operation
StandardVerbs == {httpMethods[i] : i \in 1..Len(httpMethods)} \cup {<<"t", "r", "a", "c", "e">>}

\* the path item the loop handled last
LastItem == dSpec.paths[dIndex - 1]

\* the tool comes from an entry of the item that is an operation under a verb
FromOperationEntry(tool, item, path) ==
  \E i \in 1..Len(entriesOf(item)) :
    LET entry == entriesOf(item)[i]
    IN /\ entry.kind = "operation"
       /\ entry.key \in StandardVerbs
       /\ tool.metadata.method = toUpperCase(entry.key)
       /\ tool.metadata.originalPath = path

\* the item handled last made tools of its operations and of nothing else,
\* and did not end the derivation
OperationsOnly ==
  /\ dPc # "failed"
  /\ \A k \in 1..Len(dNewTools) :
       FromOperationEntry(dNewTools[k], LastItem, pathOf(dIndex - 1))
  /\ (LastItem.kind = "item" /\ LastItem.method \in StandardVerbs) =>
       \E k \in 1..Len(dNewTools) :
         dNewTools[k].metadata.method = toUpperCase(LastItem.method)

\* C24: a path item makes tools only of its entries whose key is an HTTP verb
\* and whose value is an operation that is there and is no reference; its
\* other entries (parameters, summary, description, servers, a $ref, an
\* absent or reference-only item) make no tool and do not keep the operations
\* beside them from being derived.
C24_OnlyOperationsMakeTools ==
  (dIndex > 1 /\ dPc \in {"paths", "done", "failed"}) => OperationsOnly

\* what holds of it: `parameters` and an absent operation are skipped by
\* both parsers, a reference in the place of an operation by part_000
SkippedEntries ==
  (/\ dIndex > 1 /\ dPc \in {"paths", "done", "failed"}
   /\ LastItem.kind = "item"
   /\ \A i \in 1..Len(LastItem.others) :
        \/ LastItem.others[i].kind = "null"
        \/ LastItem.others[i].key = <<"p", "a", "r", "a", "m", "e", "t", "e", "r", "s">>
        \/ (LastItem.others[i].kind = "ref" /\ dParser = "part_000"))
    => OperationsOnly


(***************************************************************************)
(* Claims about the input schema of a derived tool.                        *)
(***************************************************************************)

\* C25: in the input schema of every tool handed to the registry, every name
\* listed in `required` is the name of a declared property.
C25_RequiredAreDeclared ==
  \A i \in 1..Len(dLog) :
    Required(dLog[i].inputSchema) \subseteq Declared(dLog[i].inputSchema)

\* the same for the tools derived by part_000 alone
RequiredAreDeclaredByPart000 ==
  dParser = "part_000" => C25_RequiredAreDeclared


\* the type a parameter is to be given: its schema's type, string without one
UsableType(param) ==
  IF param.schema.kind = "node" /\ param.schema.type # "" THEN param.schema.type
  ELSE "string"

\* the names the body schema retained for the tool declares
BodyNames(tool) == Declared(tool.metadata.requestBodySchema)

\* the parameter is a property of the input schema, typed and required as it
\* declares
ParameterDeclared(param, tool) ==
  LET in == tool.inputSchema
  IN /\ param.name \in Declared(in)
     /\ propOf(in.props, param.name).kind = "node"
     /\ propOf(in.props, param.name).type = UsableType(param)
     /\ propOf(in.props, param.name).items = "none"
     /\ param.name \in Required(in) <=> param.required

\* C26: every parameter of an operation that is no reference is a property
\* of the input schema of each tool of the operation, under its name; the
\* type of the property is the type of the parameter's schema, or string when
\* the schema is missing, a reference or without type; an array has no items;
\* the property is required exactly when the parameter says required: true;
\* and no parameter ends the derivation.  (A parameter that shares its name
\* with a property of the body schema is left out.)
C26_ParametersBecomeProperties ==
  (HandledOperation /\ LastOperation.hasParams) =>
    /\ dPc # "failed"
    /\ Len(dNewTools) > 0
    /\ \A k \in 1..Len(dNewTools) :
         \A i \in 1..Len(LastOperation.parameters) :
           LET param == LastOperation.parameters[i]
           IN (~param.ref /\ param.name \notin BodyNames(dNewTools[k])) =>
                ParameterDeclared(param, dNewTools[k])

\* what holds of it: a parameter whose schema is a schema object, in an
\* operation whose body schema requires nothing, is declared so
SchemaParametersBecomeProperties ==
  (HandledOperation /\ LastOperation.hasParams) =>
    /\ dPc # "failed"
    /\ \A k \in 1..Len(dNewTools) :
         \A i \in 1..Len(LastOperation.parameters) :
           LET param == LastOperation.parameters[i]
           IN (/\ ~param.ref /\ param.name \notin BodyNames(dNewTools[k])
               /\ param.schema.kind = "node"
               /\ ~dNewTools[k].metadata.requestBodySchema.hasReq) =>
                ParameterDeclared(param, dNewTools[k])


(***************************************************************************)
(* Claims about the cache across loads.                                    *)
(***************************************************************************)

\* the load of the url that runs, and whether it has ended
ThisLoad == load[1]
Ended(l) == l.pc = "failed" \/ (l.pc = "done" /\ l.valid # "unknown")

\* the file getCachedSpec met held an entry with the document
MetStored(l, doc) ==
  /\ ~l.read.fault
  /\ l.read.file.state = "entry"
  /\ l.read.file.entry.content = doc

\* C27 as stated: a load that meets a stored document in the cache and
\* receives a 304 returns that document.
C27_StoredBeforeValidation304 ==
  \A doc \in ServedDocs :
    (/\ ThisLoad.source = "url" /\ Ended(ThisLoad)
     /\ MetStored(ThisLoad, doc) /\ ThisLoad.answers304 > 0) =>
      ThisLoad.result = Returned(doc)

\* C27 amended: a fetched document goes to setCachedSpec as soon as the
\* response has parsed, and validateSpec runs only after that, on what the
\* load returned: a document without paths is in the cache file when the
\* write succeeded, although the load is then found invalid.  A later load
\* that finds this entry not older than the TTL and with an etag, and
\* receives a 304, returns the stored document (and fails validation again).
C27_StoredBeforeValidation ==
  /\ ThisLoad.pc \in {"mkdir", "writing", "opened"} => ThisLoad.valid = "unknown"
  /\ (ThisLoad.source = "url" /\ ThisLoad.pc = "done" /\ ThisLoad.lastAnswer = "ok") =>
       /\ ThisLoad.setCached
       /\ ThisLoad.result = Returned(ThisLoad.fetched.content)
       /\ ThisLoad.stored => cacheFile = FileEntry(ThisLoad.fetched)
  /\ \A doc \in ServedDocs :
       (/\ ThisLoad.source = "url" /\ Ended(ThisLoad)
        /\ MetStored(ThisLoad, doc) /\ ThisLoad.answers304 > 0
        /\ ~expired(ThisLoad.read.file.entry, ThisLoad.read.at)
        /\ ThisLoad.read.file.entry.etag # NoEtag) =>
         /\ ThisLoad.result = Returned(doc)
         /\ ThisLoad.valid = IF validateSpec(doc) THEN "yes" ELSE "no"

\* the second load met the document without paths that the first had stored,
\* received a 304 and returned it
C27_Witness ==
  /\ loads = 2
  /\ Ended(ThisLoad)
  /\ MetStored(ThisLoad, "noPaths")
  /\ ThisLoad.lastAnswer = "notModified"
  /\ ThisLoad.result = Returned("noPaths")
  /\ ThisLoad.valid = "no"


\* C28: a load of a url returns the cached content only in answer to a
\* 304.  A cached entry, valid and not expired, does not keep the GET from
\* being sent: no load ends before a GET was sent.  A load that returns a
\* document returns the one it fetched, after an ok answer, or the cached one,
\* after a 304 and with an entry in hand.  When every attempt has failed with
\* an error other than not modified, the load fails, entry or no entry.
C28_CacheOnlyOn304 ==
  LET l == ThisLoad
  IN l.source = "url" =>
       /\ l.pc \in {"done", "failed"} => Len(l.sentAt) >= 1
       /\ l.pc = "done" =>
            \/ /\ l.lastAnswer = "ok"
               /\ l.result = Returned(l.fetched.content)
               /\ l.fetched.present
            \/ /\ l.lastAnswer = "notModified"
               /\ l.cached.present
               /\ l.result = Returned(l.cached.content)
       /\ (Len(l.failedAt) = maxRetries /\ l.answers304 = 0) =>
            /\ l.pc = "failed"
            /\ l.result = Thrown("fetchFailure")

\* an entry that is valid and not expired was in hand, three GETs were sent
\* with its etag, none was answered 304, and the load failed
C28_Witness ==
  /\ ThisLoad.source = "url"
  /\ ThisLoad.cached.present
  /\ ThisLoad.cached.etag # NoEtag
  /\ Len(ThisLoad.sentAt) = maxRetries
  /\ ThisLoad.answers304 = 0
  /\ ThisLoad.pc = "failed"


(* C29: a load that ends in a 304 revalidation, and a load that fails, leave
   the cache file as getCachedSpec met it: content, etag and timestamp are
   not rewritten. The file changes only inside a load of a URL whose last
   answer was a document. An entry that a load before this one revalidated
   is still refused once it is more than one TTL older than its own
   timestamp. A load of a local path or of a document in memory neither
   reads the cache nor stores anything in it. *)
EndsUnchanged(l) ==
  (l.source = "url"
     /\ \/ l.pc = "done" /\ l.lastAnswer = "notModified"
        \/ l.pc = "failed")
    => cacheFile = l.read.file

RevalidatedStillExpires(l) ==
  (l.source = "url" /\ l.pc # "start" /\ l.revalidated /\ ~l.read.fault
     /\ l.read.file.state = "entry"
     /\ l.read.at - l.read.file.entry.timestamp > CACHE_TTL)
    => l.cached = NoEntry

LocalNeverTouches(l) ==
  l.source # "url" =>
    /\ l.read = NoRead /\ l.cached = NoEntry
    /\ l.sentAt = <<>>
    /\ ~l.setCached /\ ~l.stored

WrittenOnlyAfterDocument ==
  cacheFile' # cacheFile =>
    /\ ThisLoad.source = "url"
    /\ ThisLoad.lastAnswer = "ok"
    /\ ThisLoad.pc \in {"writing", "opened"}

C29_RevalidationLeavesCache ==
  /\ [](EndsUnchanged(ThisLoad) /\ RevalidatedStillExpires(ThisLoad)
          /\ LocalNeverTouches(ThisLoad))
  /\ [][WrittenOnlyAfterDocument]_vars

\* the entry written at 0 was revalidated by the load before this one, and
\* this load, a millisecond after the TTL, finds no usable entry
C29_Witness ==
  /\ loads = 2 /\ ThisLoad.revalidated
  /\ ThisLoad.source = "url" /\ ThisLoad.pc = "request"
  /\ ThisLoad.read = [at |-> CACHE_TTL + 1, fault |-> FALSE,
                      file |-> FileEntry(Entry("docA", 0, "e1"))]
  /\ cacheFile = ThisLoad.read.file
  /\ ThisLoad.cached = NoEntry


\* the nested names a property schema declares
NestedNames(propSchemaObj) ==
  {propSchemaObj.properties[j] : j \in 1..Len(propSchemaObj.properties)}

(* C30: under a retained schema the body built from the arguments holds
   only keys the schema declares. Every top-level key is a declared
   property; under a property declared as an object with nested properties
   only the declared nested names appear; every other declared property
   holds the argument of its own name. So an argument that is neither a
   declared property nor the flattened form of a declared nested property
   is left out, and a top-level key of the final body, when the defaults
   were applied without a TypeError, that the arguments did not give is a
   key of the environment defaults. *)
C30_OnlyDeclaredKeys ==
  (bPc = "built" /\ ~bTool.none) =>
    /\ ~bRebuilt.err
    /\ \A k \in DOMAIN bRebuilt.body :
         \E i \in 1..Len(bTool.properties) :
           /\ bTool.hasProps
           /\ bTool.properties[i][1] = k
           /\ IF i \in ObjectProps(bTool)
              THEN /\ IsObj(bRebuilt.body[k])
                   /\ DOMAIN bRebuilt.body[k].f \subseteq NestedNames(bTool.properties[i][2])
              ELSE /\ ArgHas(bArgs, k)
                   /\ bRebuilt.body[k] = ArgGet(bArgs, k)
    /\ ~bBody.err =>
         \A k \in DOMAIN bBody.body :
           k \in DOMAIN bRebuilt.body \/ k \in DOMAIN bDefaults

\* x and p_c are given under a schema that declares only p, without nested
\* properties: neither is in the body built from the arguments, and the x of
\* the final body is the default, not the argument
C30_Witness ==
  /\ bPc = "built" /\ ~bTool.none /\ bTool.hasProps
  /\ ObjectProps(bTool) = {}
  /\ ArgHas(bArgs, nX) /\ ArgGet(bArgs, nX) = S1
  /\ ArgHas(bArgs, Flat(nP, nC))
  /\ bRebuilt = Ok(EmptyObj)
  /\ bDefaults = (nX :> S2)
  /\ bBody = Ok(nX :> S2)

=============================================================================
